---- MODULE Spec2Model ----
(***************************************************************************)
(* A model of the NDS ROM loader of rsds (crates/rom): the KEY1 cipher     *)
(* (nds/encrypt/key1.rs), the header predicates (nds/header.rs) and the    *)
(* loader NdsRom::load / open / load_data / init_secure_area (nds/mod.rs). *)
(*                                                                         *)
(* Numbers.  TLC's integers are 32-bit signed, so a u32 or usize value v   *)
(* is kept as the pair <<v \div 2^16, v % 2^16>> (a "word").  For a u32    *)
(* the high half is below 2^16 and every operation reduces modulo 2^32;    *)
(* for a usize (64-bit host) the high half is not reduced: the lengths of  *)
(* the model stay far below 2^63, where `<<= 1` would discard a bit.       *)
(***************************************************************************)
EXTENDS Integers, Sequences, FiniteSets, TLC

VARIABLES
  \* The key states Key1::init<level>(game_code) of the model's game codes.
  \* They are pure functions of the game code; the table is built once, in
  \* the initial state, and never changes.
  keys,
  \* ---- KEY1 cipher (SpecKey1) ----
  k_pc,        \* "new" | "ready" | "encrypted" | "decrypted"
  k_game,      \* the game code the key state was initialised with (a word)
  k_level,     \* its level, 1..3 (0 before initialisation)
  key_buf,     \* Key1.key_buf: KEY_DATA_LEN words (<<>> before initialisation)
  block,       \* the 8-byte block handed to encrypt_block / decrypt_block
  plain        \* the block as it was before encrypt_block

kvars == <<k_pc, k_game, k_level, key_buf, block, plain>>

VARIABLES
  \* ---- the loader (Spec) ----
  roms,           \* the static table ROMS: game code -> RomParams
  pc,             \* "start" | "open_read" | "load_data" | "done" | "panic"
                  \* | "io_error" | "hang"
  via,            \* the entry point called: "" | "load" | "open"
  input,          \* the descriptor the input image was built from
  bytes,          \* the input: the slice given to load, or the file's content
  pos,            \* open: how many bytes the read loop has stored in the buffer
  short_reads,    \* open: reads that returned less than was left to read
  interrupts,     \* open: reads that failed with ErrorKind::Interrupted
  rom_data_size,  \* load_data's rom_data_size (the input's length)
  rom,            \* NdsRom.rom, the owned buffer
  header,         \* NdsRom.header: the 512 bytes copied by NdsHeader::read
  banner,         \* NdsRom.banner: None or the 9152 bytes copied by NdsBanner::read
  params,         \* NdsRom.params
  chip_id,        \* NdsRom.chip_id
  performed,      \* whether this load called Key1::encrypt_secure_area (line 183)
  panic_at,       \* where the load aborted ("" if it did not)
  log,            \* the warnings and debug messages the load logged
  loads,          \* how many loads were started
  first           \* the result of the previous load when this one re-loads it

lvars == <<roms, pc, via, input, bytes, pos, short_reads, interrupts, rom_data_size,
           rom, header, banner, params, chip_id, performed, panic_at, log,
           loads, first>>

VARIABLES
  \* ---- fixed-capacity strings (SpecStr) ----
  s_pc,      \* "none", "new", or the operation applied last
  s_kind,    \* "ascii" or "utf16"
  s_chars,   \* the N code units of the string
  s_out      \* what the operation returned
svars == <<s_pc, s_kind, s_chars, s_out>>

VARIABLES
  \* ---- the header's fields on a given host (SpecHost) ----
  e_pc,      \* "none" | "read" | "field" | "capacity"
  e_host,    \* the host's byte order: "little" or "big"
  e_header,  \* the NdsHeader that NdsHeader::read returned
  e_field,   \* the field read last
  e_value    \* its value: a u32, or what device_capacity_bytes() returned
evars == <<e_pc, e_host, e_header, e_field, e_value>>

VARIABLES
  \* ---- the key schedule, call by call (SpecSchedule) ----
  x_pc,      \* "none" | "keycode" | "xor" | "expand" | "shift" | "done"
  x_game,    \* the game code given to init<level>
  x_level,   \* the level, 1..3
  x_steps,   \* how many apply_keycode calls have returned
  x_call,    \* expand_key: how many chained encrypt calls have been made
  x_key,     \* init<level>'s local `key`: three words
  x_kb,      \* key1.key_buf
  x_lr       \* expand_key's running pair `lr`
xvars == <<x_pc, x_game, x_level, x_steps, x_call, x_key, x_kb, x_lr>>

vars == <<keys, kvars, lvars, svars, evars, xvars>>

(***************************************************************************)
(* Words                                                                   *)
(***************************************************************************)
HALF == 65536

W(n) == <<n \div HALF, n % HALF>>
WLt(a, b) == a[1] < b[1] \/ (a[1] = b[1] /\ a[2] < b[2])
WLe(a, b) == a = b \/ WLt(a, b)
WAdd(a, b) == <<a[1] + b[1] + (a[2] + b[2]) \div HALF, (a[2] + b[2]) % HALF>>

\* `as u32`: the low 32 bits.
AsU32(a) == <<a[1] % HALF, a[2]>>
\* u32::wrapping_add.
Add32(a, b) == AsU32(WAdd(a, b))
\* a - b on u32, for b <= a.
Sub32(a, b) ==
  IF a[2] >= b[2] THEN <<a[1] - b[1], a[2] - b[2]>>
  ELSE <<a[1] - b[1] - 1, a[2] + HALF - b[2]>>

\* The value of a word below 2^31.
ToNat(a) == a[1] * HALF + a[2]
Min(a, b) == IF a < b THEN a ELSE b
Max(a, b) == IF a < b THEN b ELSE a

RECURSIVE Pow2(_)
Pow2(k) == IF k = 0 THEN 1 ELSE 2 * Pow2(k - 1)

\* u32 `<< k` for k < 16: the bits shifted out are dropped.
Shl32(a, k) ==
  <<(a[1] * Pow2(k) + a[2] \div Pow2(16 - k)) % HALF, (a[2] * Pow2(k)) % HALF>>
\* u32 `>> k`.
Shr32(a, k) ==
  IF k >= 16 THEN <<0, a[1] \div Pow2(k - 16)>>
  ELSE <<a[1] \div Pow2(k), a[2] \div Pow2(k) + (a[1] % Pow2(k)) * Pow2(16 - k)>>

\* Bitwise exclusive or, from the bits up; bytes go through a table.
RECURSIVE BitXor(_, _, _)
BitXor(a, b, n) ==
  IF n = 0 THEN 0 ELSE ((a + b) % 2) + 2 * BitXor(a \div 2, b \div 2, n - 1)
XorByte == [a \in 0..255 |-> [b \in 0..255 |-> BitXor(a, b, 8)]]
Xor16(a, b) ==
  XorByte[a \div 256][b \div 256] * 256 + XorByte[a % 256][b % 256]
Xor32(a, b) == <<Xor16(a[1], b[1]), Xor16(a[2], b[2])>>
\* Bitwise or (`|=`), the same way.
RECURSIVE BitOr(_, _, _)
BitOr(a, b, n) ==
  IF n = 0 THEN 0
  ELSE (IF a % 2 = 1 \/ b % 2 = 1 THEN 1 ELSE 0) + 2 * BitOr(a \div 2, b \div 2, n - 1)
OrByte == [a \in 0..255 |-> [b \in 0..255 |-> BitOr(a, b, 8)]]
Or16(a, b) ==
  OrByte[a \div 256][b \div 256] * 256 + OrByte[a % 256][b % 256]
Or32(a, b) == <<Or16(a[1], b[1]), Or16(a[2], b[2])>>

\* u32::swap_bytes.
swap_bytes(a) ==
  <<(a[2] % 256) * 256 + a[2] \div 256, (a[1] % 256) * 256 + a[1] \div 256>>
\* byteorder::LittleEndian::read_u32 / write_u32 on a 4-byte sequence.
read_u32(b) == <<b[4] * 256 + b[3], b[2] * 256 + b[1]>>
write_u32(a) == <<a[2] % 256, a[2] \div 256, a[1] % 256, a[1] \div 256>>

(***************************************************************************)
(* KEY1 (nds/encrypt/key1.rs)                                              *)
(***************************************************************************)
KEY_DATA_LEN == 1042

KEY_DATA ==
  <<
    <<\h5F20, \hD599>>, <<\hB9F5, \h4457>>, <<\hD9A4, \h196E>>, <<\h945A, \h6A9E>>,
    <<\hEBF1, \hAED8>>, <<\h3AE2, \h7541>>, <<\h32D0, \h8293>>, <<\hD531, \hEE33>>,
    <<\h9A61, \h57CC>>, <<\h1BA2, \h0637>>, <<\hF572, \h3979>>, <<\hBEF6, \hAE55>>,
    <<\hFB69, \h1B5F>>, <<\hE9F1, \h9DE5>>, <<\hA1D9, \h2CCE>>, <<\hE605, \h325E>>,
    <<\hCFFE, \hD3FE>>, <<\h0D04, \h62D4>>, <<\hB7EC, \hF58B>>, <<\hBB79, \h602B>>,
    <<\h0D31, \h9512>>, <<\h2BDA, \h3F6E>>, <<\hF1F0, \h8488>>, <<\h257E, \h123D>>,
    <<\hBBF1, \h2245>>, <<\h061A, \h0624>>, <<\h28DF, \hAD11>>, <<\h3481, \h648B>>,
    <<\h2933, \hEB2B>>, <<\hBDF2, \hAA99>>, <<\h9D95, \h149C>>, <<\h8CF5, \hF79F>>,
    <<\h29A1, \h9772>>, <<\hCF5F, \hD19D>>, <<\h1A07, \h4D66>>, <<\h4B4A, \hD3DE>>,
    <<\hA3A7, \hC985>>, <<\h3A05, \h9517>>, <<\hBF0A, \h493D>>, <<\hA28B, \h890A>>,
    <<\hDD49, \h824A>>, <<\h0BF1, \h9027>>, <<\h6A1C, \hEBE9>>, <<\h0545, \h7683>>,
    <<\h6170, \h81BA>>, <<\hDE4B, \h3F17>>, <<\h39AB, \hCFAE>>, <<\h563A, \hF257>>,
    <<\h8AAD, \h1148>>, <<\h3F45, \hE140>>, <<\h5402, \h9BFA>>, <<\hFB93, \hA6CA>>,
    <<\h6FFE, \h4DEF>>, <<\h9C87, \hD8A3>>, <<\h48D5, \hBA08>>, <<\hFD2D, \h8D6A>>,
    <<\h74F8, \h156E>>, <<\h8B52, \hBEBD>>, <<\h9E8A, \h2218>>, <<\h0737, \h74FB>>,
    <<\h4A6C, \h361B>>, <<\h6242, \hBA19>>, <<\h1091, \h79B9>>, <<\h9665, \h677B>>,
    <<\hE823, \h02FE>>, <<\h778C, \h99EE>>, <<\h6486, \h5C3E>>, <<\h8678, \h6D4D>>,
    <<\hE265, \h4FA5>>, <<\h5ADF, \hB21E>>, <<\h087E, \hD00A>>, <<\hAC71, \hB014>>,
    <<\h1C83, \hDBBD>>, <<\h62A1, \hD7B9>>, <<\h7C63, \hC6CD>>, <<\hE6C3, \h6952>>,
    <<\h12CE, \h75BF>>, <<\h0421, \h5D44>>, <<\h3CD3, \hFBFA>>, <<\hD463, \h1138>>,
    <<\h4941, \h8595>>, <<\h08F2, \h0946>>, <<\h1FDC, \h1143>>, <<\h6D15, \hC076>>,
    <<\h7063, \h3C1F>>, <<\h6C80, \h87EA>>, <<\h8B63, \hBDC3>>, <<\h3721, \h37C2>>,
    <<\h2309, \hEEDC>>, <<\h4D6A, \h372E>>, <<\h50F7, \h9073>>, <<\h921C, \hAC30>>,
    <<\h9123, \h1004>>, <<\hAA07, \hD24F>>, <<\h9A4F, \h3E68>>, <<\h6A60, \h64C9>>,
    <<\hF321, \h14C8>>, <<\h1241, \h22D6>>, <<\hE6CF, \h2444>>, <<\h0DDD, \h568A>>,
    <<\h85E1, \h4D53>>, <<\h5A52, \h8C1E>>, <<\hC284, \h199C>>, <<\h6FF1, \h5703>>,
    <<\h58BE, \h00E3>>, <<\hD5ED, \h4CF6>>, <<\h1F9C, \h6421>>, <<\h3C03, \h55BE>>,
    <<\hAAFF, \hDC4A>>, <<\h5DE0, \hDAC9>>, <<\hDEE6, \hBF5E>>, <<\hF8B1, \hD8F5>>,
    <<\hB9B3, \h36FF>>, <<\hDB95, \h6762>>, <<\hED37, \h5F31>>, <<\h9967, \h704C>>,
    <<\h3118, \hB590>>, <<\h9999, \h3D6C>>, <<\hD3DA, \h42E4>>, <<\hA013, \h4225>>,
    <<\h6C70, \hD7AE>>, <<\hC7CF, \h55B1>>, <<\h43D5, \h46D7>>, <<\h443D, \h1761>>,
    <<\h8533, \hE928>>, <<\h93A2, \hD0D5>>, <<\h1F12, \h25AA>>, <<\h460B, \hC5FB>>,
    <<\h5676, \h97F5>>, <<\h87BE, \hA645>>, <<\hE86B, \h94B1>>, <<\h9933, \hFEB1>>,
    <<\h6C3E, \h1FAE>>, <<\h091D, \h7139>>, <<\hE437, \h9000>>, <<\h7475, \h3E10>>,
    <<\h3B83, \h8CFF>>, <<\hF9B0, \hF1B0>>, <<\h4247, \h0501>>, <<\hACD6, \hF195>>,
    <<\h9EE6, \h387E>>, <<\h3F26, \h7495>>, <<\h1850, \h68B4>>, <<\hB430, \h43D0>>,
    <<\h68E3, \h4B4C>>, <<\hB64D, \hE5BF>>, <<\hA00A, \h8B95>>, <<\h7732, \h2574>>,
    <<\h2CF7, \hA1CF>>, <<\h5A13, \h71D8>>, <<\h51C9, \hEAAB>>, <<\hEFEE, \h0DE8>>,
    <<\h197E, \h93E9>>, <<\h3843, \h1EA7>>, <<\hA12C, \h1681>>, <<\hCC73, \hE348>>,
    <<\hD36C, \h2129>>, <<\hD9A0, \hCE5D>>, <<\hA043, \h7161>>, <<\h64B5, \h1315>>,
    <<\h192A, \hCF92>>, <<\hA5B7, \hADDC>>, <<\hF865, \h869F>>, <<\hFBE7, \h9F1A>>,
    <<\h13B8, \hFDF7>>, <<\h6FDB, \h276C>>, <<\hF71C, \h35DF>>, <<\h9B5B, \h2C8D>>,
    <<\h6438, \hAB12>>, <<\h31DE, \hCC06>>, <<\h1175, \h4EE8>>, <<\hEAFA, \hE364>>,
    <<\hC254, \h34EB>>, <<\hEB34, \h3FAD>>, <<\h267D, \h2C93>>, <<\hF356, \h9D36>>,
    <<\hB3F6, \hE15A>>, <<\h9E4A, \h6398>>, <<\h9AE4, \h8332>>, <<\h907D, \h6084>>,
    <<\hEE0E, \h132E>>, <<\hA236, \h4B93>>, <<\h3816, \hEC85>>, <<\h0206, \h88E8>>,
    <<\h3AA0, \hF0BF>>, <<\h9A6A, \hD7ED>>, <<\hCF57, \hE173>>, <<\hDCB8, \h44F8>>,
    <<\hD159, \h232E>>, <<\h7152, \h95DF>>, <<\h4BA0, \h6199>>, <<\h786E, \h7FD5>>,
    <<\h30C5, \hA9BA>>, <<\h3286, \h40D3>>, <<\h9C0C, \h329D>>, <<\h2F02, \hB737>>,
    <<\hA998, \h54BA>>, <<\hC904, \h13C4>>, <<\hE7C8, \hBE8D>>, <<\h2E50, \h975D>>,
    <<\h5922, \hD693>>, <<\h22BC, \h270C>>, <<\h20A7, \hE092>>, <<\h7F6F, \h930F>>,
    <<\hB5D3, \h9F4C>>, <<\h740B, \h2AA6>>, <<\h107D, \h4967>>, <<\hC5D1, \hCB26>>,
    <<\h8CE7, \h7186>>, <<\h5BE9, \h9CA0>>, <<\h01F6, \h1AB2>>, <<\h5E9E, \h8CEE>>,
    <<\hDB1A, \hF283>>, <<\h84EA, \hE5E6>>, <<\h7CD2, \h7659>>, <<\h49A5, \h8DF6>>,
    <<\h16C2, \h4836>>, <<\hA383, \hBB52>>, <<\h0C07, \hB974>>, <<\h2861, \hFF3B>>,
    <<\hE4E9, \h61E1>>, <<\hAA15, \h6EEF>>, <<\h5DE8, \hBA4E>>, <<\h32BB, \h9605>>,
    <<\h72FB, \hB056>>, <<\hC80E, \h0F52>>, <<\h7665, \h2542>>, <<\hDEF2, \hAF89>>,
    <<\h01F0, \h2710>>, <<\h97A7, \h744B>>, <<\h5426, \hD507>>, <<\h821F, \h0954>>,
    <<\h307D, \h860A>>, <<\h26B3, \h0E39>>, <<\hBB57, \h0B9B>>, <<\hAF31, \h0636>>,
    <<\hD9FC, \h79FD>>, <<\h0C2B, \h1030>>, <<\hD79B, \hE1B3>>, <<\hEF5F, \hDC7B>>,
    <<\h4513, \hF8D2>>, <<\hBD75, \h474D>>, <<\h7E3C, \h9646>>, <<\hB53E, \hF375>>,
    <<\h3B9A, \hC567>>, <<\h6B29, \h5BB0>>, <<\hC85B, \h80DE>>, <<\h31B1, \h0515>>,
    <<\hDD49, \hCEB6>>, <<\hAEB5, \h84AD>>, <<\h3167, \hDC60>>, <<\h4EFE, \h3034>>,
    <<\hA62F, \h80BD>>, <<\h2139, \h63BF>>, <<\h7F35, \hD986>>, <<\h0522, \h6816>>,
    <<\h2690, \hE954>>, <<\h516C, \h078C>>, <<\hD755, \h31A4>>, <<\h3EA8, \h0709>>,
    <<\hC166, \h532E>>, <<\hC47B, \hF2F8>>, <<\hF1CF, \h58F2>>, <<\hE7A2, \hC587>>,
    <<\h8730, \h8F27>>, <<\h6264, \hA058>>, <<\h88B9, \h1823>>, <<\hC4CE, \hFA7C>>,
    <<\h17AD, \hAE98>>, <<\hF35B, \h4ACC>>, <<\h56D5, \h48E9>>, <<\hC8F2, \h0DD3>>,
    <<\hDB8C, \h7392>>, <<\hAC56, \h2FD7>>, <<\h6992, \hF981>>, <<\hF632, \hC64D>>,
    <<\h218D, \hC0E6>>, <<\h6180, \h76E2>>, <<\h6CDC, \hBC11>>, <<\h6919, \hAF93>>,
    <<\hB9BF, \hD09B>>, <<\h6702, \h9F31>>, <<\h83EE, \h51A3>>, <<\h0C7B, \h2206>>,
    <<\h4042, \h49AB>>, <<\h7D01, \hD5B8>>, <<\h55F7, \h5ECE>>, <<\h99C5, \h3953>>,
    <<\h9F87, \hD846>>, <<\hB464, \hF7BA>>, <<\hA1FA, \h9AE3>>, <<\h1068, \h906D>>,
    <<\h548A, \hCA30>>, <<\hC360, \h9FA7>>, <<\h0D6B, \hF519>>, <<\hE698, \h517A>>,
    <<\hB451, \h4398>>, <<\h4FE9, \h35D6>>, <<\h7B0F, \hDFC3>>, <<\hBD5C, \h2FD6>>,
    <<\h1961, \h153A>>, <<\hAACB, \h4BF1>>, <<\hC964, \h6DDC>>, <<\h561E, \hC6D3>>,
    <<\h504C, \h38EF>>, <<\hCC75, \h8671>>, <<\hE94E, \h0D0D>>, <<\h5D06, \hF628>>,
    <<\hD3AA, \h1B70>>, <<\h39A8, \hCF45>>, <<\h2EA6, \h95AC>>, <<\hD422, \hE4B4>>,
    <<\h5F37, \hA874>>, <<\hCC04, \h7A48>>, <<\hD840, \h4CA5>>, <<\h0828, \hB428>>,
    <<\h5272, \h1C0D>>, <<\h477D, \hF041>>, <<\h4E53, \h3A19>>, <<\h6B62, \h8458>>,
    <<\h818A, \hB593>>, <<\hDC0D, \h4E21>>, <<\hC6A2, \h3FB4>>, <<\h402B, \hC9FC>>,
    <<\hE904, \h38DA>>, <<\h6B86, \h5A5E>>, <<\h8525, \h220C>>, <<\h7C8D, \h1168>>,
    <<\h5595, \h1D92>>, <<\hBB8E, \hAB4D>>, <<\hB7E6, \hA6DA>>, <<\h5A32, \hB651>>,
    <<\h05DD, \h4105>>, <<\h5056, \h0A2A>>, <<\hCC47, \h1791>>, <<\hB57E, \hE6C9>>,
    <<\h73DB, \h4A61>>, <<\h33C8, \h5167>>, <<\h746E, \hDAF5>>, <<\h37C3, \h542E>>,
    <<\h08AF, \h6D0D>>, <<\h5F8A, \h15E8>>, <<\hCD21, \h59E2>>, <<\h060C, \hDEA8>>,
    <<\h5F6B, \h775A>>, <<\h3E65, \h18DB>>, <<\h78DE, \h50C8>>, <<\hB382, \hB8E0>>,
    <<\h3272, \h4E5D>>, <<\h34C1, \h4F07>>, <<\hB796, \hBA23>>, <<\h28A4, \h4E67>>,
    <<\hEB62, \h341E>>, <<\hE970, \h6A2D>>, <<\h70C4, \h422F>>, <<\h9C31, \h5A4E>>,
    <<\h2847, \h5BF9>>, <<\h6F71, \hDAAA>>, <<\h78B3, \h1F38>>, <<\h1C6B, \h92C4>>,
    <<\h9A35, \hF69E>>, <<\hBF0E, \h4DB7>>, <<\h4129, \h18CC>>, <<\h5D35, \h4803>>,
    <<\hC62B, \hD055>>, <<\h605C, \hAF29>>, <<\h5E8E, \h6974>>, <<\hBDD4, \h7C9B>>,
    <<\h7D64, \h447B>>, <<\h695D, \h923F>>, <<\h4B00, \h1FB6>>, <<\hCF35, \h83D4>>,
    <<\h174E, \h647E>>, <<\h2ED5, \h8DAE>>, <<\h4E12, \h289A>>, <<\h0849, \h2B2E>>,
    <<\h46C6, \hAE5C>>, <<\h6141, \hAE85>>, <<\hD282, \h6F1E>>, <<\h1F16, \h3751>>,
    <<\hA459, \hF60B>>, <<\hAF5A, \hCA9A>>, <<\h8B33, \hD40D>>, <<\h84F1, \h6320>>,
    <<\hCFCB, \h5C80>>, <<\hD3B9, \hB408>>, <<\h62BD, \h0516>>, <<\h569B, \h3183>>,
    <<\hBA9F, \h9851>>, <<\hB2AA, \h5BB2>>, <<\hB52C, \h6B22>>, <<\h63FA, \h48D4>>,
    <<\hFA58, \h5F2B>>, <<\h0964, \hFA61>>, <<\hB8E0, \h38BB>>, <<\hA860, \h929D>>,
    <<\h0E6F, \h670D>>, <<\h010D, \hF537>>, <<\hD477, \hC29F>>, <<\h73F1, \hECFE>>,
    <<\h7DE0, \h3930>>, <<\hE498, \h61F5>>, <<\h0455, \h282C>>, <<\h2FDB, \h5556>>,
    <<\h58E5, \hEC6B>>, <<\h8064, \hB606>>, <<\h4E1A, \h2A6A>>, <<\hC4D8, \h0F5B>>,
    <<\h1952, \h2E0A>>, <<\h30F5, \h62D9>>, <<\h7B8C, \hBE48>>, <<\hA29B, \h384F>>,
    <<\hD3C9, \hAFC3>>, <<\h4162, \hC1C7>>, <<\h2161, \hB986>>, <<\h4F99, \h6F57>>,
    <<\h7BCE, \hBAC1>>, <<\h5E4D, \h3BB5>>, <<\h5744, \h8B8A>>, <<\h705F, \h135F>>,
    <<\h4729, \h5B6D>>, <<\hECE2, \h38DC>>, <<\h1265, \h5504>>, <<\h4317, \hE82A>>,
    <<\h2ADD, \h8EE1>>, <<\hF794, \hE2B3>>, <<\hE65C, \h6E09>>, <<\h6DF8, \h8AEB>>,
    <<\h4854, \h4989>>, <<\hBFAD, \h2FF5>>, <<\hCA4B, \h94EA>>, <<\h8287, \h39FC>>,
    <<\hF201, \h8A5F>>, <<\h71E6, \hF275>>, <<\hDE42, \hD8D6>>, <<\h281D, \h2DF1>>,
    <<\hA37E, \h88A6>>, <<\h301D, \h47A0>>, <<\hDF71, \hA3D9>>, <<\h01CB, \h1C49>>,
    <<\hF2B1, \h36F8>>, <<\h5D58, \h22F0>>, <<\hA0BD, \h6B45>>, <<\h4288, \hB2BB>>,
    <<\hCE28, \h8CC7>>, <<\h6390, \hE893>>, <<\h897C, \h9008>>, <<\hB77D, \hF53C>>,
    <<\h554F, \h2D04>>, <<\h7EFD, \h1651>>, <<\hC1BE, \hE879>>, <<\hF8D4, \h12F2>>,
    <<\h2305, \h84B4>>, <<\h2BD2, \hCCA0>>, <<\hADAB, \hE1FD>>, <<\h6C55, \hD10D>>,
    <<\h4D94, \h4123>>, <<\h054F, \h3777>>, <<\h17BF, \h0C28>>, <<\h6C67, \h12B3>>,
    <<\hF75A, \hC38C>>, <<\h6D2A, \h8441>>, <<\h2712, \h94D0>>, <<\h9CED, \hB42C>>,
    <<\h8247, \hEC4D>>, <<\hB967, \hD597>>, <<\h55C0, \h9D1B>>, <<\h8EE5, \h7E07>>,
    <<\h3EE7, \hA8E2>>, <<\h3A0E, \hE412>>, <<\h3455, \h452A>>, <<\h5A2D, \hF9A2>>,
    <<\h7C52, \hAB1B>>, <<\h555F, \h1083>>, <<\h435A, \hF1D2>>, <<\hA4A7, \hC62B>>,
    <<\hE895, \h1589>>, <<\hF89D, \h4BB4>>, <<\h609F, \hE375>>, <<\hE6D6, \h5B78>>,
    <<\h21E6, \h440D>>, <<\h2247, \hBD06>>, <<\hAD00, \hA453>>, <<\h8513, \h438D>>,
    <<\hFCAA, \hF739>>, <<\hED7B, \hAF38>>, <<\h542B, \hE4FC>>, <<\hFC4C, \h9850>>,
    <<\hDFF7, \h8085>>, <<\hE122, \h803C>>, <<\h24DE, \hDA94>>, <<\h397A, \hB0C6>>,
    <<\hA10F, \hDC38>>, <<\h6FF9, \hF4A7>>, <<\h8B57, \h1863>>, <<\h2E2A, \h4184>>,
    <<\hD9F2, \h53D4>>, <<\hDDD0, \h0F00>>, <<\hA619, \h6E99>>, <<\h5BEC, \hD00A>>,
    <<\hC0AB, \h2458>>, <<\hEC65, \h06CB>>, <<\h9438, \h131A>>, <<\h2F03, \h670A>>,
    <<\h77E3, \hF73F>>, <<\hC633, \h7744>>, <<\hE3D0, \h3914>>, <<\h7908, \hA2C0>>,
    <<\h5799, \h40BB>>, <<\h9001, \h0B41>>, <<\h48CC, \hE1CD>>, <<\hAFB3, \hDB67>>,
    <<\h4CF3, \h7488>>, <<\hB172, \h8F82>>, <<\hC429, \h23B5>>, <<\hFC19, \h6C12>>,
    <<\h9CA4, \h468E>>, <<\h8765, \h25C4>>, <<\h8ABE, \h6DD3>>, <<\h3803, \h1193>>,
    <<\hF32B, \h83ED>>, <<\hEA93, \hA446>>, <<\h1D85, \h533B>>, <<\h08F1, \hD4CE>>,
    <<\hFCED, \h2783>>, <<\hBC18, \h1A9B>>, <<\hDCAE, \h8BF9>>, <<\h3850, \hAB24>>,
    <<\h104B, \h72E9>>, <<\h467B, \h1722>>, <<\h6459, \hAB5D>>, <<\hF8AE, \h40F3>>,
    <<\hF9C8, \hE5BB>>, <<\h554E, \h0326>>, <<\hFEEB, \hEB7D>>, <<\hE0E6, \h39F7>>,
    <<\h2EBE, \h110A>>, <<\hED98, \hFF28>>, <<\h5642, \hC9C0>>, <<\h00FD, \hC342>>,
    <<\hA287, \hAFF6>>, <<\h323F, \h015B>>, <<\h9A95, \h4792>>, <<\h3D32, \hA572>>,
    <<\h9BD0, \h6BAE>>, <<\h9249, \hD207>>, <<\hFA4A, \h78E3>>, <<\hF27D, \h06A1>>,
    <<\h7477, \hCF41>>, <<\h0CB2, \h1404>>, <<\h1664, \h8486>>, <<\hA151, \hBBD5>>,
    <<\hD1F1, \h6FE5>>, <<\h5FF7, \hE2F2>>, <<\hB84D, \h2058>>, <<\hDDCF, \hC757>>,
    <<\h76BE, \hD8C5>>, <<\h7E5F, \hF63D>>, <<\h888B, \h2AE7>>, <<\h3F38, \h1B24>>,
    <<\h7723, \h410E>>, <<\hD44B, \hF0F5>>, <<\hA4FA, \h1F0C>>, <<\hCF5F, \h800B>>,
    <<\hDAE0, \hF645>>, <<\h5359, \h342F>>, <<\h523C, \h20FB>>, <<\hB535, \h5E62>>,
    <<\h608B, \hFE62>>, <<\h5A86, \hE363>>, <<\hD16E, \h1A15>>, <<\h32BC, \h4547>>,
    <<\h3867, \hEBB4>>, <<\h336E, \hE4AB>>, <<\hA3ED, \hB53A>>, <<\h4EE0, \h67AD>>,
    <<\h62EE, \h9541>>, <<\h1D26, \h7162>>, <<\h3062, \hEF31>>, <<\hAC82, \hD7AF>>,
    <<\h0405, \hDCC2>>, <<\hBF07, \h97F5>>, <<\h0723, \h5911>>, <<\hE802, \h64C0>>,
    <<\hAF3E, \hE597>>, <<\hA659, \hAC18>>, <<\h9033, \h4A8B>>, <<\h9C7C, \h6E1C>>,
    <<\h3C4C, \h7E20>>, <<\hBB64, \h613E>>, <<\h7E7C, \h6BC5>>, <<\h4CC5, \h9F3E>>,
    <<\hF573, \hEA9F>>, <<\h4CC0, \h89D7>>, <<\h2DF4, \hFBF4>>, <<\h511B, \h14EC>>,
    <<\hC812, \hC1D5>>, <<\h4A0B, \hDF10>>, <<\h93BC, \h9C8B>>, <<\h3E3E, \h6A45>>,
    <<\hBAA9, \hC17D>>, <<\h07B4, \hC1CD>>, <<\h8668, \hE1E4>>, <<\h386D, \hB243>>,
    <<\h5C0C, \hFBF3>>, <<\hDE71, \h3766>>, <<\hA06E, \hEF56>>, <<\hA765, \h4010>>,
    <<\hBED0, \hF798>>, <<\h3637, \hC80E>>, <<\h7CCA, \h10EC>>, <<\h1E84, \hAB9C>>,
    <<\h0276, \h1705>>, <<\hAA52, \h4F1C>>, <<\hA0C6, \hC15F>>, <<\h04D8, \hB956>>,
    <<\hA74D, \h4484>>, <<\h60DE, \hD859>>, <<\h050E, \h38E6>>, <<\h3BE1, \h038F>>,
    <<\h3304, \h816D>>, <<\hCE0B, \h306F>>, <<\h3321, \h0569>>, <<\h89BB, \h26FB>>,
    <<\h87AE, \hB67D>>, <<\hE007, \h517E>>, <<\h0A96, \hF7AC>>, <<\h5CC4, \hF96B>>,
    <<\h4744, \hE41D>>, <<\hE3FA, \h5EB8>>, <<\h4255, \h8478>>, <<\hF75E, \h484B>>,
    <<\h8635, \h477D>>, <<\h0543, \h2B1D>>, <<\hB88A, \hEC03>>, <<\h763C, \h061E>>,
    <<\h431A, \h480C>>, <<\hED8A, \hB7A7>>, <<\h43C6, \h131E>>, <<\hDBEF, \h10EE>>,
    <<\h833C, \hFBEC>>, <<\hEF44, \h95B2>>, <<\h4E51, \h54D8>>, <<\h1D44, \h112D>>,
    <<\h1E59, \h36FB>>, <<\hC3C1, \h347A>>, <<\h6100, \h57CA>>, <<\h16A5, \h67EA>>,
    <<\h55D0, \h559B>>, <<\h36D9, \h7FE1>>, <<\hAE76, \h40D2>>, <<\hB0CE, \h01DC>>,
    <<\hCBD5, \h837A>>, <<\h6BEC, \h9820>>, <<\h3492, \h72C1>>, <<\h3757, \h82F3>>,
    <<\h3632, \h8A62>>, <<\hAE43, \h900C>>, <<\h789B, \h5CAE>>, <<\h0265, \h138E>>,
    <<\hC171, \h68FD>>, <<\hA031, \hB0FE>>, <<\hC3B0, \h8224>>, <<\hA769, \h79B1>>,
    <<\hD0EB, \hD2F5>>, <<\hDC32, \hC082>>, <<\h3C26, \hC79E>>, <<\hC198, \h8D6D>>,
    <<\hD0D4, \h22BB>>, <<\h3EEC, \h330F>>, <<\hDCE1, \hCCB9>>, <<\h3677, \h4C6A>>,
    <<\hBFF9, \h1C14>>, <<\h5F28, \h9F81>>, <<\h2932, \h8571>>, <<\hC448, \h7590>>,
    <<\hD8CE, \h4AB3>>, <<\h2F14, \h8F44>>, <<\hEF57, \h40FD>>, <<\hD975, \h08AA>>,
    <<\h6ED6, \hD146>>, <<\hC31F, \h5532>>, <<\h1F84, \hFE18>>, <<\hFFD5, \h84FC>>,
    <<\h481B, \h5E71>>, <<\h0E95, \h86C3>>, <<\hD327, \h0828>>, <<\h7B71, \h8338>>,
    <<\h5463, \h804C>>, <<\hACB0, \h569A>>, <<\h31CA, \h80CF>>, <<\hF3FE, \hEF09>>,
    <<\h7E24, \hAFBE>>, <<\h3F53, \hFEA6>>, <<\h334A, \h8DC2>>, <<\hA622, \hD168>>,
    <<\hEA7B, \hAD66>>, <<\hB043, \hB6DE>>, <<\h0095, \h25A1>>, <<\h4675, \h3FA3>>,
    <<\hEC44, \h1114>>, <<\h92BC, \h95D7>>, <<\h16A9, \h4FF0>>, <<\h6097, \h6253>>,
    <<\hF141, \h0F2A>>, <<\hEEBE, \h2471>>, <<\hCD08, \h7F94>>, <<\h85B3, \h9360>>,
    <<\h3F00, \h075B>>, <<\h8328, \h0FD8>>, <<\h9F69, \hD19A>>, <<\hC32E, \hDAD1>>,
    <<\hB9A2, \h0190>>, <<\h662A, \h4E6B>>, <<\hA6AE, \hDA9D>>, <<\h68D3, \h2AEA>>,
    <<\h9C0C, \h0C2F>>, <<\hED4A, \h8CD2>>, <<\h6557, \h9EE2>>, <<\hA387, \h099D>>,
    <<\h5D32, \hC4B4>>, <<\h2B32, \hD4C9>>, <<\h1E71, \hE0B1>>, <<\h90E6, \h4D64>>,
    <<\h401E, \hE371>>, <<\h84F3, \h7DED>>, <<\h78C8, \hED0E>>, <<\h71C0, \hAE76>>,
    <<\h05BB, \h7227>>, <<\hFB64, \h02EA>>, <<\hB56B, \h48F3>>, <<\hED3F, \h9342>>,
    <<\hD253, \h139F>>, <<\hEC2A, \hFEF7>>, <<\hDB25, \h471D>>, <<\hC686, \h913C>>,
    <<\hFD11, \hF08E>>, <<\hF736, \h7423>>, <<\h7A9E, \hF5A4>>, <<\h4450, \h537E>>,
    <<\hD3CA, \h47D4>>, <<\hE66D, \h38EB>>, <<\h7F94, \h71D9>>, <<\h4B69, \hC64A>>,
    <<\hEA52, \hF411>>, <<\hB08A, \hFE22>>, <<\h598B, \h6736>>, <<\h2A80, \hE6E8>>,
    <<\h1304, \h65EB>>, <<\h9EDC, \hECEE>>, <<\h05EC, \hB15F>>, <<\h9FE6, \h596A>>,
    <<\h896B, \h595E>>, <<\hCA1A, \hF7BF>>, <<\h6A5B, \hF944>>, <<\hE403, \h8571>>,
    <<\h70E0, \h6229>>, <<\hCFC4, \h416F>>, <<\hE3CC, \hB1B2>>, <<\hA807, \hA67E>>,
    <<\h847F, \hE787>>, <<\h4B52, \hDB93>>, <<\hDD7E, \hEC6C>>, <<\h1048, \h24D4>>,
    <<\h6004, \h9F69>>, <<\h1848, \hE674>>, <<\hB92C, \hE4F3>>, <<\h7A50, \h2E4F>>,
    <<\h6954, \hD4DF>>, <<\hF3A7, \h8B2B>>, <<\hF31F, \hFFCE>>, <<\h3901, \h263E>>,
    <<\h8984, \h9517>>, <<\h4B4C, \hF0B0>>, <<\hC49F, \h9182>>, <<\hA59D, \hAC4B>>,
    <<\h2517, \hAF74>>, <<\hD332, \hCAC9>>, <<\h848A, \h89BC>>, <<\hAE0D, \hCC89>>,
    <<\h9CDB, \hA27C>>, <<\hEE91, \h786A>>, <<\h4E5D, \h76EA>>, <<\h69F5, \h6087>>,
    <<\h02D4, \h6715>>, <<\h3648, \hAFCF>>, <<\h6FBF, \hEA07>>, <<\h8F06, \h2D66>>,
    <<\hF9FE, \h9AC4>>, <<\h7587, \h90F6>>, <<\h0FAD, \hF7B8>>, <<\h3D5A, \h1076>>,
    <<\hB32E, \hB059>>, <<\hCC2C, \h35C7>>, <<\hCB2B, \h5670>>, <<\hC596, \h37E3>>,
    <<\h8A1B, \h462F>>, <<\h88C7, \h4622>>, <<\h9832, \h26A7>>, <<\h2286, \hDF61>>,
    <<\h2F1C, \hF48A>>, <<\hAA09, \hA187>>, <<\hD3AE, \hA9CC>>, <<\h1C45, \h00BD>>,
    <<\h8687, \h549A>>, <<\hFFEF, \h8752>>, <<\h8FA1, \h8F1E>>, <<\h355C, \h89C1>>,
    <<\h3A2D, \hDA1B>>, <<\hC2B2, \h162C>>, <<\h78E2, \h56F1>>, <<\h9763, \h6BC1>>,
    <<\hC98F, \h56C5>>, <<\hAA2C, \h7F32>>, <<\hACA8, \hA6AF>>, <<\h8822, \h9120>>,
    <<\h8B60, \hE4DE>>, <<\h2542, \h4BF9>>, <<\h9C7F, \hE31A>>, <<\h3A89, \h192C>>,
    <<\h36D4, \h057E>>, <<\hC258, \h69CC>>, <<\h2F8B, \h32C1>>, <<\h7AEB, \h8590>>,
    <<\hA1A5, \h5039>>, <<\h66C5, \h9227>>, <<\h584F, \h20B0>>, <<\h4383, \h557E>>,
    <<\h9CE2, \h452B>>, <<\h9012, \hD8E4>>, <<\h5683, \h162C>>, <<\hB303, \h7916>>,
    <<\h1861, \h2DAD>>, <<\h371F, \h131A>>, <<\h739C, \hE1E2>>, <<\hFDD5, \h807B>>,
    <<\hFC87, \h512D>>, <<\h1FD7, \hAA7B>>, <<\hAF8E, \h7A2C>>, <<\hCDBB, \h8DF4>>,
    <<\h727C, \h1195>>, <<\hE26F, \hEE0B>>, <<\h37DE, \hAFB9>>, <<\h8D8C, \hDE83>>,
    <<\hB767, \h0562>>, <<\h568D, \hC696>>, <<\h62D7, \h0DB6>>, <<\h3646, \hD6BA>>,
    <<\hE6C8, \h8EBD>>, <<\h106C, \h2AEA>>, <<\h5B6B, \hFF14>>, <<\h463C, \h82FA>>,
    <<\h4643, \h30B1>>, <<\h9B7D, \h8A51>>, <<\h7983, \h3E92>>, <<\hB25D, \h555B>>,
    <<\h90CE, \h5E6C>>, <<\h9853, \h8E62>>, <<\hE56D, \h0DC9>>, <<\hC5CD, \h572D>>,
    <<\hE1BA, \h5781>>, <<\h728F, \hB8E8>>, <<\hDC13, \h4FE5>>, <<\h1571, \h9DEA>>,
    <<\h8811, \hB210>>, <<\h7FD4, \h09D5>>, <<\h2C7F, \h655B>>, <<\h114C, \h383B>>,
    <<\hFB8D, \h5068>>, <<\hBF59, \hB09E>>, <<\h4A89, \h8094>>, <<\h1218, \h1AC5>>,
    <<\h4AD1, \h5389>>, <<\h8CE8, \h2910>>, <<\hEAB6, \hEC1C>>, <<\h8B17, \hC746>>,
    <<\hA831, \h1525>>, <<\hB143, \h6BA2>>, <<\h0BDB, \hE29D>>, <<\h11B0, \h9B87>>,
    <<\hD271, \h0E04>>, <<\h8289, \h7729>>, <<\h7F41, \h660A>>, <<\hFF48, \h0B1D>>,
    <<\hFD24, \hBB72>>, <<\h9BA1, \h48C2>>, <<\hCE7F, \h7BFE>>, <<\hD986, \hDB88>>,
    <<\hB01C, \h3B85>>, <<\h0733, \hA8DC>>, <<\hE32E, \h51BF>>, <<\h9700, \h9A0E>>,
    <<\h97C0, \h061E>>, <<\hB6D8, \h9D43>>, <<\h6786, \hC445>>, <<\h88F8, \h005F>>,
    <<\h9E52, \hA49A>>, <<\h838A, \hAAC7>>, <<\h18C5, \hEC75>>, <<\h2FC3, \hCEAE>>,
    <<\h18F9, \h2B1A>>, <<\hF51A, \hAEFF>>, <<\h33B5, \h0B53>>, <<\hE8FD, \hA751>>,
    <<\h64A2, \hE1A8>>, <<\h4317, \h22B6>>, <<\hD80A, \hCC80>>, <<\h40BA, \h3BAE>>,
    <<\h4A92, \hD9D7>>, <<\h1004, \hDF89>>, <<\h2B18, \h9BEE>>, <<\h8A69, \h776A>>,
    <<\hB9F9, \hF468>>, <<\h6E15, \h21A2>>, <<\h033B, \h1EE6>>, <<\h609B, \h3062>>,
    <<\h9B25, \h7E41>>, <<\h52C5, \h8F9E>>, <<\hC2F8, \h0810>>, <<\h1121, \hA169>>,
    <<\h795E, \h3788>>, <<\h10FF, \h6635>>, <<\hED6E, \h1842>>, <<\h1C6B, \hB697>>,
    <<\h6DE5, \h364E>>, <<\hBFE4, \hB47D>>, <<\h05E0, \hB920>>, <<\hB8D5, \h693A>>,
    <<\hE0DC, \hD5E3>>, <<\h3E53, \hACB9>>, <<\hAD57, \hA407>>, <<\h1848, \hFF77>>,
    <<\h49AC, \h2A76>>, <<\h7547, \h8E2A>>, <<\h6367, \h9F6D>>, <<\h398C, \h3530>>,
    <<\h6FD5, \h3905>>, <<\hAD5B, \h3A64>>, <<\h82BB, \h0BCA>>, <<\hB145, \h9952>>,
    <<\h9936, \h3693>>, <<\h4420, \h13AF>>, <<\h4402, \hD836>>, <<\h8592, \h3909>>,
    <<\h974A, \h4AFF>>, <<\hD763, \hA687>>, <<\h24B5, \hB5C7>>, <<\h6FB4, \h0FED>>,
    <<\h1452, \h580C>>, <<\hD37B, \hA6D9>>, <<\h5838, \hBC79>>, <<\h843B, \hBDA1>>,
    <<\h061A, \hD806>>, <<\hEAA8, \h6BFD>>, <<\h0428, \h694B>>, <<\h9982, \hAD37>>,
    <<\h851B, \h0EFB>>, <<\h735D, \hA8BD>>, <<\h7558, \hDCCD>>, <<\h6C63, \hBE0A>>,
    <<\hE44C, \hE748>>, <<\h6004, \h2B30>>, <<\hDAD8, \h15B9>>, <<\h8F75, \h8186>>,
    <<\h1C8D, \hD496>>, <<\h7C85, \h705D>>, <<\hD57B, \h671C>>, <<\hCEA6, \h6708>>,
    <<\h7066, \h0A4B>>, <<\hD463, \hE5B7>>, <<\hEA82, \h8A5B>>, <<\hE2CA, \h6710>>,
    <<\h8517, \hEFF4>>, <<\h8A5F, \h2A2F>>, <<\h6AF8, \h8297>>, <<\hEA10, \h34D6>>,
    <<\h3C5C, \hC9EB>>, <<\h46F8, \h49E1>>, <<\hF6BD, \hDEEB>>, <<\hAAF1, \h92A9>>,
    <<\hB018, \hA0A6>>, <<\h1F0F, \hD33A>>, <<\h31FF, \h6FF3>>, <<\hD344, \h4345>>,
    <<\h88F7, \h9A50>>, <<\hCEC1, \h9609>>, <<\h2CF2, \hCC76>>, <<\h82AD, \hBA2C>>,
    <<\h8418, \h8F77>>, <<\h9C07, \hD2C0>>, <<\h4E83, \h9036>>, <<\h434F, \hA50B>>,
    <<\h78AB, \h043E>>, <<\h09FB, \hD64F>>, <<\hDA90, \h2401>>, <<\h613A, \h3C6F>>,
    <<\h4A69, \h7F0D>>, <<\h0230, \h2BEB>>, <<\h84E0, \hDBB4>>, <<\h35D7, \hECA9>>,
    <<\h857D, \h37BF>>, <<\h4EA9, \hCE58>>, <<\hA8C7, \h80E4>>, <<\h4867, \h30D3>>,
    <<\h2FAF, \h29EB>>, <<\hA7B4, \h6A74>>, <<\h923F, \h0F3F>>, <<\hACCA, \hF3AF>>,
    <<\h94D9, \h4BAF>>, <<\h81CA, \h43C0>>, <<\hA148, \h2F0D>>, <<\hD2D5, \h27B0>>,
    <<\h8505, \h4BEF>>, <<\h934D, \hDEA3>>, <<\hBBF0, \h3C30>>, <<\h2730, \h8F4A>>,
    <<\h3EE3, \hEB4C>>, <<\h2F9A, \hED64>>, <<\hF082, \hF13B>>, <<\h7FCF, \hF4BA>>,
    <<\hE1B0, \hCB40>>, <<\h57AA, \hBC7F>>, <<\hF274, \hC9D3>>, <<\h220D, \h43FA>>,
    <<\h4E77, \hF4D0>>, <<\h7085, \hD793>>, <<\hB6BF, \h991F>>, <<\h30F1, \h35DE>>,
    <<\hF071, \h5EA7>>, <<\h7B2D, \h016B>>, <<\h5333, \hF064>>, <<\hF388, \h390A>>,
    <<\h6BA6, \h3A6B>>, <<\h432F, \hD235>>, <<\hB5FD, \h02CD>>, <<\hAA5B, \hBCE9>>,
    <<\h7E19, \hA4D8>>, <<\h8194, \h5D0E>>, <<\hAD77, \h6F9E>>, <<\h9374, \h0ED6>>,
    <<\h18C4, \hE796>>, <<\h19F5, \hAD5F>>
  >>

\* key_buf[i] of the source is kb[i + 1] here: sequences start at 1.
lookup(kb, x) ==
  LET a == kb[(x[1] \div 256) + 18 + 0 + 1]
      b == kb[(x[1] % 256) + 18 + 256 + 1]
      c == kb[(x[2] \div 256) + 18 + 512 + 1]
      d == kb[(x[2] % 256) + 18 + 768 + 1]
  IN Add32(Xor32(Add32(a, b), c), d)

\* TLC computes an operator's arguments when they are first used; Known(x)
\* uses x, so that a loop's rounds are computed one after the other.
Known(x) == x = x

\* One pass of encrypt's loop body, for i in 0..7, then the two final xors.
RECURSIVE EncryptRounds(_, _, _, _)
EncryptRounds(kb, l, r, i) ==
  IF Known(l) /\ Known(r) /\ i = 8 THEN <<Xor32(r, kb[16 + 1]), Xor32(l, kb[17 + 1])>>
  ELSE LET r1 == Xor32(r, kb[2 * i + 1])
           l1 == Xor32(Xor32(l, lookup(kb, r1)), kb[2 * i + 1 + 1])
           r2 == Xor32(r1, lookup(kb, l1))
       IN EncryptRounds(kb, l1, r2, i + 1)
encrypt(kb, l, r) == EncryptRounds(kb, l, r, 0)

\* decrypt's loop runs i = 8, 7, ..., 1, then the two final xors.
RECURSIVE DecryptRounds(_, _, _, _)
DecryptRounds(kb, l, r, i) ==
  IF Known(l) /\ Known(r) /\ i = 0 THEN <<Xor32(r, kb[1 + 1]), Xor32(l, kb[0 + 1])>>
  ELSE LET r1 == Xor32(r, kb[2 * i + 1 + 1])
           l1 == Xor32(Xor32(l, lookup(kb, r1)), kb[2 * i + 1])
           r2 == Xor32(r1, lookup(kb, l1))
       IN DecryptRounds(kb, l1, r2, i - 1)
\* A decrypt that walks the round keys in encrypt's order (not mirrored).
decrypt_unmirrored(kb, l, r) == EncryptRounds(kb, l, r, 0)
\* A decrypt whose loop starts at i = 7.
decrypt_from_seven(kb, l, r) == DecryptRounds(kb, l, r, 7)
decrypt(kb, l, r) == DecryptRounds(kb, l, r, 8)

\* The call with its output pair stored in the order lr.0, lr.1.
ExpandStep_unswapped(st, i) ==
  LET lr == encrypt(st.kb, st.lr[1], st.lr[2])
  IN [kb |-> [st.kb EXCEPT ![2 * i + 1] = lr[1], ![2 * i + 1 + 1] = lr[2]],
      lr |-> lr]
\* One chained encrypt call of expand_key: call number i (0-based) writes
\* words 2i and 2i+1.  The two loops of the source (9 calls on P, 0x200 on
\* the S-boxes at 0x12 + 2i) write consecutive words, so they are one range.
ExpandStep(st, i) ==
  LET lr == encrypt(st.kb, st.lr[1], st.lr[2])
  IN [kb |-> [st.kb EXCEPT ![2 * i + 1] = lr[2], ![2 * i + 1 + 1] = lr[1]],
      lr |-> lr]
\* Calls lo..hi-1 in order.  The range is halved so that the evaluation
\* stays shallow; the test on `left` makes TLC finish the first half before
\* it starts the second.
RECURSIVE ExpandCalls(_, _, _)
ExpandCalls(st, lo, hi) ==
  IF hi = lo THEN st
  ELSE IF hi = lo + 1 THEN ExpandStep(st, lo)
  ELSE LET mid == (lo + hi) \div 2
           left == ExpandCalls(st, lo, mid)
       IN IF left.lr = left.lr THEN ExpandCalls(left, mid, hi) ELSE left
expand_key(kb, key) ==
  LET xored == [i \in 1..18 |-> Xor32(kb[i], swap_bytes(key[((i - 1) % 2) + 1]))]
               \o SubSeq(kb, 19, KEY_DATA_LEN)
  IN ExpandCalls([kb |-> xored, lr |-> <<W(0), W(0)>>], 0, 9 + 512).kb

\* apply_keycode mutates the key state and the key: both are returned.
apply_keycode(kb, key) ==
  LET bc == encrypt(kb, key[2], key[3])
      ab == encrypt(kb, key[1], bc[1])
      key2 == <<ab[1], ab[2], bc[2]>>
  IN [key_buf |-> expand_key(kb, key2), key |-> key2]

\* apply_keycode's first four lines: the key after the two encrypt calls.
KeycodeKey(kb, key) ==
  <<encrypt(kb, key[1], encrypt(kb, key[2], key[3])[1])[1],
    encrypt(kb, key[1], encrypt(kb, key[2], key[3])[1])[2],
    encrypt(kb, key[2], key[3])[2]>>
\* expand_key's first loop: key_buf[i] ^= key[i & 1].swap_bytes(), i < 0x12.
XorP(kb, key) ==
  [i \in 1..18 |-> Xor32(kb[i], swap_bytes(key[((i - 1) % 2) + 1]))]
    \o SubSeq(kb, 19, KEY_DATA_LEN)

\* The two shifts taken as rotations: the bit shifted out comes back in.
BaseKey_rotated(game_code) ==
  <<game_code,
    <<(game_code[1] \div 2) + (game_code[2] % 2) * 32768,
      (game_code[1] % 2) * 32768 + game_code[2] \div 2>>,
    <<(2 * game_code[1] + game_code[2] \div 32768) % 65536,
      ((2 * game_code[2]) % 65536) + (game_code[1] \div 32768)>> >>
BaseKey(game_code) == <<game_code, Shr32(game_code, 1), Shl32(game_code, 1)>>

init1(game_code) == apply_keycode(KEY_DATA, BaseKey(game_code)).key_buf
init2(game_code) ==
  LET s1 == apply_keycode(KEY_DATA, BaseKey(game_code))
  IN apply_keycode(s1.key_buf, s1.key).key_buf
init3(game_code) ==
  LET s1 == apply_keycode(KEY_DATA, BaseKey(game_code))
      s2 == apply_keycode(s1.key_buf, s1.key)
      key == <<s2.key[1], Shl32(s2.key[2], 1), Shr32(s2.key[3], 1)>>
  IN apply_keycode(s2.key_buf, key).key_buf

\* The two words of a block, written back little-endian.
write_block(lr) == write_u32(lr[1]) \o write_u32(lr[2])
encrypt_block(kb, b) ==
  write_block(encrypt(kb, read_u32(SubSeq(b, 1, 4)), read_u32(SubSeq(b, 5, 8))))
\* A decrypt_block that writes the two words in the other order.
decrypt_block_swapped(kb, b) ==
  write_block(<<decrypt(kb, read_u32(SubSeq(b, 1, 4)), read_u32(SubSeq(b, 5, 8)))[2],
                decrypt(kb, read_u32(SubSeq(b, 1, 4)), read_u32(SubSeq(b, 5, 8)))[1]>>)
decrypt_block(kb, b) ==
  write_block(decrypt(kb, read_u32(SubSeq(b, 1, 4)), read_u32(SubSeq(b, 5, 8))))

(***************************************************************************)
(* The game codes and blocks of the model                                  *)
(***************************************************************************)
NumGameCodes == 2
NumBlocks == 5

\* Game codes as the four header bytes: "AMCE", the homebrew mark "####",
\* a code with its top and bottom bits set, "ZZZZ", "YYYY".
GameCodeBytes ==
  << <<65, 77, 67, 69>>, <<35, 35, 35, 35>>, <<129, 0, 255, 231>>,
     <<90, 90, 90, 90>>, <<89, 89, 89, 89>> >>
GameCodes == {read_u32(GameCodeBytes[i]) : i \in 1..NumGameCodes}

\* Key1::init<level>(game_code) for the game codes of the model, computed
\* once (TLC evaluates a constant definition a single time).
Key1Table ==
  [level \in 1..3 |-> [g \in GameCodes |->
     IF level = 1 THEN init1(g) ELSE IF level = 2 THEN init2(g) ELSE init3(g)]]
Key1Init(level, g) == Key1Table[level][g]

EncryObj == <<101, 110, 99, 114, 121, 79, 98, 106>>   \* b"encryObj"
E7FFDEFF == <<255, 222, 255, 231>>
GenBlock(j) == [i \in 1..8 |-> (j * 89 + i * i * 37 + i * j * 11) % 256]
Blocks ==
  {EncryObj, [i \in 1..8 |-> 0], [i \in 1..8 |-> 255], E7FFDEFF \o E7FFDEFF}
  \cup {GenBlock(j) : j \in 1..NumBlocks}

(***************************************************************************)
(* usize.  The loader is modelled for a 64-bit target: a usize is four     *)
(* 16-bit limbs, most significant first, and arithmetic wraps at 2^64.     *)
(***************************************************************************)
U(n) == <<0, 0, n \div HALF, n % HALF>>
as_usize(a) == <<0, 0, a[1], a[2]>>
as_u32(u) == <<u[3], u[4]>>
ULt(a, b) ==
  \/ a[1] < b[1]
  \/ a[1] = b[1] /\ a[2] < b[2]
  \/ a[1] = b[1] /\ a[2] = b[2] /\ a[3] < b[3]
  \/ a[1] = b[1] /\ a[2] = b[2] /\ a[3] = b[3] /\ a[4] < b[4]
ULe(a, b) == a = b \/ ULt(a, b)
UAdd(a, b) ==
  LET s4 == a[4] + b[4]
      s3 == a[3] + b[3] + s4 \div HALF
      s2 == a[2] + b[2] + s3 \div HALF
      s1 == a[1] + b[1] + s2 \div HALF
  IN  <<s1 % HALF, s2 % HALF, s3 % HALF, s4 % HALF>>
\* a - b for b <= a.
USub(a, b) ==
  LET d4 == a[4] - b[4]
      d3 == a[3] - b[3] - (IF d4 < 0 THEN 1 ELSE 0)
      d2 == a[2] - b[2] - (IF d3 < 0 THEN 1 ELSE 0)
      d1 == a[1] - b[1] - (IF d2 < 0 THEN 1 ELSE 0)
  IN  <<(d1 + HALF) % HALF, (d2 + HALF) % HALF, (d3 + HALF) % HALF,
        (d4 + HALF) % HALF>>
\* `x <<= 1` on a usize: the top bit is dropped.
UShl1(a) == UAdd(a, a)
\* a << k on a usize, k < 64: the bits shifted out are dropped.
UShl(a, k) ==
  LET src(j) == IF j + (k \div 16) <= 4 THEN a[j + (k \div 16)] ELSE 0
  IN  [j \in 1..4 |-> ((src(j) * Pow2(k % 16)) % HALF)
                       + ((src(j + 1) * Pow2(k % 16)) \div HALF)]
UMin(a, b) == IF ULt(a, b) THEN a ELSE b
\* The value of a usize below 2^31.
UNat(u) == u[3] * HALF + u[4]
USmall(u) == u[1] = 0 /\ u[2] = 0 /\ u[3] < HALF \div 2

(***************************************************************************)
(* Byte strings.  A slice or buffer of `len` bytes is kept as its first    *)
(* Len(data) bytes written out, followed by the byte `fill` up to index n, *)
(* followed by zeros up to len; so buffers of gigabytes stay small.        *)
(***************************************************************************)
Canon(s) ==
  IF ULe(s.n, U(Len(s.data))) \/ s.fill = 0
  THEN [len |-> s.len, data |-> s.data, fill |-> 0, n |-> U(Len(s.data))]
  ELSE s
\* The byte at index i < len (i below 2^31).
At(s, i) ==
  IF i < Len(s.data) THEN s.data[i + 1]
  ELSE IF ULt(U(i), s.n) THEN s.fill ELSE 0
\* A function on 1..n as a tuple.
Tup(f) == f \o <<>>
\* The bytes at [a, b), written out.
Slice(s, a, b) ==
  IF b <= Len(s.data) THEN SubSeq(s.data, a + 1, b)
  ELSE Tup([i \in 1..(b - a) |-> At(s, a + i - 1)])
\* The string with the bytes at [a, a + Len(t)) replaced by t.
Splice(s, a, t) ==
  LET e == Max(Len(s.data), a + Len(t))
      all == Slice(s, 0, e)
  IN  Canon([s EXCEPT !.data =
        SubSeq(all, 1, a) \o t \o SubSeq(all, a + Len(t) + 1, e)])
\* A copy that stops one byte early.
ZeroPadded_short(src, k, size) ==
  Canon([len |-> size,
         data |-> IF ULe(k, U(Len(src.data)))
                  THEN SubSeq(src.data, 1, Max(UNat(k), 1) - 1)
                  ELSE src.data,
         fill |-> src.fill,
         n |-> UMin(IF k = U(0) THEN k ELSE USub(k, U(1)), src.n)])
\* vec![0u8; size] with the first k bytes of src copied in (k <= src.len).
ZeroPadded(src, k, size) ==
  Canon([len |-> size,
         data |-> IF ULt(k, U(Len(src.data))) THEN SubSeq(src.data, 1, UNat(k))
                  ELSE src.data,
         fill |-> src.fill, n |-> UMin(k, src.n)])

(***************************************************************************)
(* NdsHeader: the first 512 bytes of the buffer, copied as they are; the   *)
(* fields are read at their offsets (little-endian host).                  *)
(***************************************************************************)
NdsHeader_SIZE == 512
NdsBanner_SIZE == 9152
OFF_game_code == 12
OFF_unit_code == 18
OFF_device_capacity == 20
OFF_arm9_rom_offset == 32
OFF_banner_offset == 104
OFF_rom_size == 128

OFF_secure_area_crc16 == 108
OFF_nintendo_logo_crc16 == 348
OFF_header_crc16 == 350

NdsHeader_read(r) == Slice(r, 0, NdsHeader_SIZE)
Field32(h, off) == read_u32(SubSeq(h, off + 1, off + 4))
game_code_bytes(h) == SubSeq(h, OFF_game_code + 1, OFF_game_code + 4)
game_code(h) == read_u32(game_code_bytes(h))
unit_code(h) == h[OFF_unit_code + 1]
arm9_rom_offset(h) == Field32(h, OFF_arm9_rom_offset)
\* The offset read as the u16 at 0x06C, four bytes too far.
banner_offset_at_crc(h) ==
  <<0, h[OFF_secure_area_crc16 + 1] + 256 * h[OFF_secure_area_crc16 + 2]>>
banner_offset(h) == Field32(h, OFF_banner_offset)
is_dsi(h) == (unit_code(h) \div 2) % 2 # 0
\* The first test with <= for <.
is_homebrew_le(h) ==
  WLe(arm9_rom_offset(h), W(16384)) \/ game_code_bytes(h) = <<35, 35, 35, 35>>
is_homebrew(h) ==
  WLt(arm9_rom_offset(h), W(16384)) \/ game_code_bytes(h) = <<35, 35, 35, 35>>
has_secure_area_le(h) ==
  WLt(arm9_rom_offset(h), W(32768)) /\ WLe(W(16383), arm9_rom_offset(h))
has_secure_area(h) ==
  WLt(arm9_rom_offset(h), W(32768)) /\ WLe(W(16384), arm9_rom_offset(h))

(***************************************************************************)
(* RomParams.  The table ROMS is generated at build time from a data file; *)
(* the loader only looks a game code up in it.                             *)
(***************************************************************************)
None == <<>>
Some(x) == <<x>>

SramKinds ==
  {"None", "Eeprom512B", "Eeprom8KB", "Eeprom64KB", "Eeprom128KB", "Flash256KB",
   "Flash512KB", "Flash1MB", "Nand8MB", "Nand16MB", "Nand64MB"}
memory_kind(sram_kind) ==
  IF sram_kind = "None" THEN "None"
  ELSE IF sram_kind = "Eeprom512B" THEN "EepromSmall"
  ELSE IF sram_kind \in {"Eeprom8KB", "Eeprom64KB", "Eeprom128KB"} THEN "EepromRegular"
  ELSE IF sram_kind \in {"Flash256KB", "Flash512KB", "Flash1MB"} THEN "Flash"
  ELSE "Nand"
RomParams_get(table, code) ==
  IF code \in DOMAIN table THEN Some(table[code]) ELSE None

\* n MiB as a u32 (n < 4096) and as a usize: 1 MiB is 16 in the high half.
MiB32(n) == <<n * 16, 0>>
MiBsz(n) == as_usize(MiB32(n))

(***************************************************************************)
(* NdsRom::load and NdsRom::open: the size of the buffer.                  *)
(***************************************************************************)
\* `while rom_size < len { rom_size <<= 1; }`.  A usize that has become 0
\* stays 0 under the shift, so the loop then runs for ever.
RECURSIVE size_loop_le(_, _)
size_loop_le(rom_size, len) ==
  IF ~ULe(rom_size, len) THEN [hangs |-> FALSE, rom_size |-> rom_size]
  ELSE IF rom_size = U(0) THEN [hangs |-> TRUE, rom_size |-> rom_size]
  ELSE size_loop_le(UShl1(rom_size), len)
RECURSIVE size_loop(_, _)
size_loop(rom_size, len) ==
  IF ~ULt(rom_size, len) THEN [hangs |-> FALSE, rom_size |-> rom_size]
  ELSE IF rom_size = U(0) THEN [hangs |-> TRUE, rom_size |-> rom_size]
  ELSE size_loop(UShl1(rom_size), len)

(***************************************************************************)
(* NdsRom::secure_area / secure_area_mut.  The result is None, the bytes   *)
(* of the window, or an abort: the slice rom[arm9_rom_offset..0x8000]      *)
(* panics when the buffer is shorter than 0x8000.                          *)
(***************************************************************************)
SECURE_AREA_END == 32768
\* An abort; a pair, so that its length tells it from None and from Some(x).
Panics == <<"panic", "abort">>
secure_area(r, h) ==
  IF has_secure_area(h)
  THEN IF ULt(r.len, U(SECURE_AREA_END)) THEN Panics
       ELSE Some(Slice(r, ToNat(arm9_rom_offset(h)), SECURE_AREA_END))
  ELSE None
\* The mutable window: its bytes and where in the buffer they live.
secure_area_mut(r, h) ==
  IF has_secure_area(h)
  THEN IF ULt(r.len, U(SECURE_AREA_END)) THEN Panics
       ELSE Some([at |-> ToNat(arm9_rom_offset(h)),
                  bytes |-> Slice(r, ToNat(arm9_rom_offset(h)), SECURE_AREA_END)])
  ELSE None

(***************************************************************************)
(* Key1::encrypt_secure_area(secure_area, game_code).  Its body is not     *)
(* part of the sources at hand; it is taken from the description of the    *)
(* repair: (a) the first 8 bytes become "encryObj", (b) each of the 256    *)
(* blocks of the first 0x800 bytes is encrypted under init3(game_code),    *)
(* (c) the first block is encrypted again under init2(game_code).  A       *)
(* window shorter than 0x800 bytes cannot be sliced and aborts.            *)
(***************************************************************************)
SECURE_AREA_ENCRYPTED == 2048
\* The n blocks of 8 bytes of sa, each encrypted on its own.
Flatten(blocks) ==
  Tup([i \in 1..(8 * Len(blocks)) |-> blocks[(i + 7) \div 8][((i - 1) % 8) + 1]])
EncryptBlocks(kb, sa, n) ==
  Flatten(Tup([k \in 1..n |-> encrypt_block(kb, SubSeq(sa, 8 * k - 7, 8 * k))]))
\* Step (c) on the result b of step (b); the rest of the window is kept.
EncryptFirstAgain(kb, b, sa) ==
  encrypt_block(kb, SubSeq(b, 1, 8)) \o SubSeq(b, 9, Len(b))
    \o SubSeq(sa, Len(b) + 1, Len(sa))
encrypt_secure_area(ks, sa, code) ==
  IF Len(sa) < SECURE_AREA_ENCRYPTED THEN Panics
  ELSE Some(EncryptFirstAgain(ks[2][code],
              EncryptBlocks(ks[3][code], EncryObj \o SubSeq(sa, 9, Len(sa)),
                            SECURE_AREA_ENCRYPTED \div 8),
              sa))

(***************************************************************************)
(* NdsRom::init_secure_area.  Each step takes what the steps before it     *)
(* computed as arguments.                                                  *)
(***************************************************************************)
Outcome(pc_, r, did, where, msgs) ==
  [pc |-> pc_, rom |-> r, performed |-> did, panic_at |-> where, log |-> msgs]
\* The call with its result written 8 bytes too far.
Reencrypt_shifted(r, at, e) ==
  IF e = Panics
  THEN Outcome("panic", r, TRUE, "encrypt_secure_area",
               {"re-encrypting ROM secure area"})
  ELSE Outcome("done", Splice(r, at + 8, e[1]), TRUE, "",
               {"re-encrypting ROM secure area"})
\* The call at line 183 and its effect on the buffer.
Reencrypt(r, at, e) ==
  IF e = Panics
  THEN Outcome("panic", r, TRUE, "encrypt_secure_area",
               {"re-encrypting ROM secure area"})
  ELSE Outcome("done", Splice(r, at, e[1]), TRUE, "",
               {"re-encrypting ROM secure area"})
\* The test without its second half: [0x10..0x14) is not looked at.
InspectWindow_first_only(ks, r, code, at, w) ==
  IF Len(w) < 4 THEN Outcome("panic", r, FALSE, "secure_area[0..4]", {})
  ELSE IF SubSeq(w, 1, 4) # E7FFDEFF THEN Outcome("done", r, FALSE, "", {})
  ELSE IF Len(w) < 20 THEN Outcome("panic", r, FALSE, "secure_area[0x10..0x14]", {})
  ELSE Reencrypt(r, at, encrypt_secure_area(ks, w, code))
\* No test at all: every window is encrypted.
InspectWindow_any(ks, r, code, at, w) ==
  Reencrypt(r, at, encrypt_secure_area(ks, w, code))
\* The test of line 180 on the window w that starts at index at.
InspectWindow(ks, r, code, at, w) ==
  IF Len(w) < 4 THEN Outcome("panic", r, FALSE, "secure_area[0..4]", {})
  ELSE IF SubSeq(w, 1, 4) # E7FFDEFF THEN Outcome("done", r, FALSE, "", {})
  ELSE IF Len(w) < 20 THEN Outcome("panic", r, FALSE, "secure_area[0x10..0x14]", {})
  ELSE IF SubSeq(w, 17, 20) = E7FFDEFF THEN Outcome("done", r, FALSE, "", {})
  ELSE Reencrypt(r, at, encrypt_secure_area(ks, w, code))
WithWindow(ks, r, code, sa) ==
  IF sa = None THEN Outcome("done", r, FALSE, "", {})
  ELSE IF sa = Panics THEN Outcome("panic", r, FALSE, "secure_area_mut", {})
  ELSE InspectWindow(ks, r, code, sa[1].at, sa[1].bytes)
init_secure_area(ks, r, h, code) == WithWindow(ks, r, code, secure_area_mut(r, h))

(***************************************************************************)
(* NdsRom::load_data.                                                      *)
(***************************************************************************)
\* NdsBanner::read(rom, offset): the 9152 bytes at offset.
ByteAt(r, u) ==
  IF ULt(u, U(Len(r.data))) THEN r.data[UNat(u) + 1]
  ELSE IF ULt(u, r.n) THEN r.fill ELSE 0
\* The offset forgotten: the copy starts at the buffer's first byte.
NdsBanner_read_at_zero(r, offset) ==
  Tup([i \in 1..NdsBanner_SIZE |-> ByteAt(r, U(i - 1))])
NdsBanner_read(r, offset) ==
  Tup([i \in 1..NdsBanner_SIZE |-> ByteAt(r, UAdd(offset, U(i - 1)))])

Fallback(h, rom_size) ==
  [rom_size |-> as_u32(rom_size),
   sram_kind |-> IF is_homebrew(h) THEN "None" ELSE "Eeprom64KB"]
FoundOr(found, h, rom_size) ==
  IF found # None THEN found[1] ELSE Fallback(h, rom_size)
resolve_params(table, h, rom_size) ==
  FoundOr(RomParams_get(table, game_code(h)), h, rom_size)

chip_size_bits(rom_size) ==
  IF ULe(MiBsz(256), rom_size)
  THEN Shl32(Sub32(<<0, 256>>, Shr32(as_u32(rom_size), 28)), 8)
  ELSE IF ULe(MiBsz(1), rom_size) /\ ULe(rom_size, MiBsz(128))
  THEN Shl32(Sub32(Shr32(as_u32(rom_size), 20), <<0, 1>>), 8)
  ELSE <<0, 0>>
\* The two tests made one after the other instead of either-or.
WithKind_both(c, p) ==
  LET n == IF memory_kind(p.sram_kind) = "Nand" THEN Or32(c, <<18432, 0>>) ELSE c
  IN  IF WLe(MiB32(128), p.rom_size) THEN Or32(n, <<32768, 0>>) ELSE n
WithKind(c, p) ==
  IF memory_kind(p.sram_kind) = "Nand" THEN Or32(c, <<18432, 0>>)
  ELSE IF WLe(MiB32(128), p.rom_size) THEN Or32(c, <<32768, 0>>)
  ELSE c
\* The DSi flag put one bit lower, at bit 26.
WithDsi_low(c, h) == IF is_dsi(h) THEN Or32(c, <<1024, 0>>) ELSE c
WithDsi(c, h) == IF is_dsi(h) THEN Or32(c, <<2048, 0>>) ELSE c
generate_chip_id(h, p, rom_size) ==
  WithKind(WithDsi(Or32(<<0, 194>>, chip_size_bits(rom_size)), h), p)

Warnings(p, rom_size, data_size) ==
  (IF as_usize(p.rom_size) # data_size THEN {"bad ROM size"} ELSE {})
  \cup (IF ULe(MiBsz(256), rom_size)
           \/ (ULe(MiBsz(1), rom_size) /\ ULe(rom_size, MiBsz(128)))
        THEN {} ELSE {"unexpected ROM size"})

Aborted(r, h, where) ==
  [pc |-> "panic", rom |-> r, header |-> h, banner |-> None, params |-> None,
   chip_id |-> None, performed |-> FALSE, panic_at |-> where, log |-> {}]
\* The banner decoded again once the secure area has been dealt with.
Assemble_redecoded(h, b, p, id, warn, s) ==
  [pc |-> s.pc, rom |-> s.rom, header |-> h,
   banner |-> IF b = None THEN None
              ELSE Some(NdsBanner_read(s.rom, as_usize(banner_offset(h)))),
   params |-> p, chip_id |-> id, performed |-> s.performed,
   panic_at |-> s.panic_at, log |-> warn \cup s.log]
\* The NdsRom built at lines 134-140 and what init_secure_area did to it.
Assemble(h, b, p, id, warn, s) ==
  [pc |-> s.pc, rom |-> s.rom, header |-> h, banner |-> b, params |-> p,
   chip_id |-> id, performed |-> s.performed, panic_at |-> s.panic_at,
   log |-> warn \cup s.log]
WithParams(ks, r, data_size, h, b, p) ==
  Assemble(h, b, p, generate_chip_id(h, p, r.len), Warnings(p, r.len, data_size),
           init_secure_area(ks, r, h, game_code(h)))
WithHeader(ks, table, r, data_size, h, offset) ==
  IF offset # U(0) /\ ULt(r.len, UAdd(offset, U(NdsBanner_SIZE)))
  THEN Aborted(r, h, "NdsBanner::read")
  ELSE WithParams(ks, r, data_size, h,
                  IF offset = U(0) THEN None ELSE Some(NdsBanner_read(r, offset)),
                  resolve_params(table, h, r.len))
load_data(ks, table, r, data_size) ==
  IF ULt(r.len, U(NdsHeader_SIZE)) THEN Aborted(r, None, "NdsHeader::read")
  ELSE WithHeader(ks, table, r, data_size, NdsHeader_read(r),
                  as_usize(banner_offset(NdsHeader_read(r))))

(***************************************************************************)
(* Inputs.  An input image is described by the header fields the loader    *)
(* reads and by what lies at the start of the secure area; Image builds    *)
(* its bytes.  Bytes nothing is said about follow the pattern Filler,      *)
(* which never spells the destroyed-ID value.                              *)
(***************************************************************************)
MaxLenLog == 33
MaxShortReads == 1
MaxInterrupts == 1
MaxLoads == 2

Filler(i) == (i * 7 + 3) % 251
Pattern == Tup([i \in 1..SECURE_AREA_END |-> Filler(i - 1)])
\* t with the bytes b written at index at, as far as t reaches.
Patch(t, at, b) ==
  IF at >= Len(t) THEN t
  ELSE LET m == Min(Len(b), Len(t) - at)
       IN  SubSeq(t, 1, at) \o SubSeq(b, 1, m) \o SubSeq(t, at + m + 1, Len(t))
\* The start of the secure area is written first, the header fields last.
Image(d) ==
  LET k == IF ULt(d.len, U(d.ex)) THEN UNat(d.len) ELSE d.ex
      a == ToNat(d.arm9)
      t0 == SubSeq(Pattern, 1, k)
      t1 == IF d.sa \in {"first", "both"} THEN Patch(t0, a, E7FFDEFF) ELSE t0
      t2 == IF d.sa = "both" THEN Patch(t1, a + 16, E7FFDEFF) ELSE t1
      t3 == Patch(t2, OFF_game_code, GameCodeBytes[d.code])
      t4 == Patch(t3, OFF_unit_code, <<d.unit>>)
      t5 == Patch(t4, OFF_arm9_rom_offset, write_u32(d.arm9))
      t6 == Patch(t5, OFF_banner_offset, write_u32(d.banner))
  IN  Canon([len |-> d.len, data |-> t6, fill |-> d.fill, n |-> d.len])

\* 2^k as a usize, k < 64: one bit in limb k \div 16.
Limb(k, j) == IF k \div 16 = j THEN Pow2(k % 16) ELSE 0
UPow2(k) == <<Limb(k, 3), Limb(k, 2), Limb(k, 1), Limb(k, 0)>>

Desc(len, ex, code, unit, arm9, boff, sa) ==
  [len |-> len, ex |-> ex, code |-> code, unit |-> unit, arm9 |-> arm9,
   banner |-> boff, sa |-> sa, fill |-> 165]

\* Lengths around every power of two, with no secure area.
SizeLens ==
  {U(0), U(1)}
  \cup UNION {{USub(UPow2(k), U(1)), UPow2(k), UAdd(UPow2(k), U(1))} : k \in 9..MaxLenLog}
SizeInputs == {Desc(n, 600, 1, 0, W(32768), W(0), "none") : n \in SizeLens}
\* 16 MiB images: unit codes, game codes, homebrew or not.
ChipInputs ==
  {Desc(UPow2(24), 600, c, u, a, W(0), "none") :
     c \in 1..Len(GameCodeBytes), u \in {0, 2, 3}, a \in {W(512), W(32768)}}
\* 32 KiB images: where the ARM9 code starts and what its first bytes are.
SaOffsets ==
  {W(16383), W(16384), W(28672), W(30720), W(30728), W(32752), W(32765),
   W(32767), W(32768), <<4096, 16384>>}
SaInputs ==
  {Desc(U(32768), 32768, c, 0, a, W(0), s) :
     c \in 1..NumGameCodes, a \in SaOffsets, s \in {"none", "first", "both"}}
\* Images that end inside or before the secure area.
ShortInputs ==
  {Desc(U(n), n, 1, 0, W(16384), W(0), "first") : n \in {16384, 16388, 16400}}
\* Images with a banner: inside the buffer, ending with it, and beyond it,
\* and one whose banner lies over a secure area to repair.
BannerInputs ==
  {Desc(U(32768), 32768, 1, 0, W(32768), b, "none") :
     b \in {W(512), W(23616), W(23617), <<65535, 65520>>}}
  \cup {Desc(U(32768), 32768, 1, 0, W(16384), W(16384), "first")}
\* A 4 GiB image whose game code has no entry in the table.
BigInputs == {Desc(UPow2(32), 600, 2, 0, W(32768), W(0), "none")}
Inputs ==
  SizeInputs \cup ChipInputs \cup SaInputs \cup ShortInputs \cup BannerInputs
    \cup BigInputs

\* A table the build may have generated: "####" and "YYYY" have no entry.
Params(size, kind) == [rom_size |-> size, sram_kind |-> kind]
ROMS ==
  (read_u32(GameCodeBytes[1]) :> Params(MiB32(128), "Flash512KB"))
  @@ (read_u32(GameCodeBytes[3]) :> Params(MiB32(128), "Nand16MB"))
  @@ (read_u32(GameCodeBytes[4]) :> Params(MiB32(8), "Eeprom8KB"))

(***************************************************************************)
(* Ascii<N> and Utf16<N>: N code units, the string ending at the first     *)
(* zero unit.  A decoded string is the sequence of its code points.        *)
(***************************************************************************)
REPLACEMENT == 65533
\* iter().position(..): the index of the first unit that lies in hit.
RECURSIVE position_from(_, _, _)
position_from(chars, i, hit) ==
  IF i > Len(chars) THEN None
  ELSE IF chars[i] \in hit THEN Some(i - 1)
  ELSE position_from(chars, i + 1, hit)
position(chars, hit) == position_from(chars, 1, hit)
\* unwrap_or(N) taken for unwrap_or(0).
Ascii_len_or_zero(chars) ==
  IF position(chars, {0}) = None THEN 0 ELSE position(chars, {0})[1]
Ascii_len(chars) ==
  IF position(chars, {0}) = None THEN Len(chars) ELSE position(chars, {0})[1]
Ok(str) == [ok |-> TRUE, str |-> str, valid_up_to |-> 0]
Err(valid_up_to) == [ok |-> FALSE, str |-> <<>>, valid_up_to |-> valid_up_to]
validate_ascii(chars) ==
  IF position(chars, 128..255) = None THEN Ok(<<>>)
  ELSE Err(position(chars, 128..255)[1])
Ascii_to_str(chars) ==
  IF validate_ascii(SubSeq(chars, 1, Ascii_len(chars))).ok
  THEN Ok(SubSeq(chars, 1, Ascii_len(chars)))
  ELSE validate_ascii(SubSeq(chars, 1, Ascii_len(chars)))
\* The loop of to_string_lossy: the valid bytes before the invalid one and a
\* replacement are pushed, and the loop is left when what remains is valid.
LossyStep(res, remaining, valid_up_to) ==
  [res |-> res \o SubSeq(remaining, 1, valid_up_to) \o <<REPLACEMENT>>,
   remaining |-> SubSeq(remaining, valid_up_to + 2, Len(remaining))]
RECURSIVE LossyLoop(_, _)
LossyLoop(st, v) ==
  IF v.ok THEN st.res
  ELSE LossyLoop(LossyStep(st.res, st.remaining, v.valid_up_to),
                 validate_ascii(LossyStep(st.res, st.remaining, v.valid_up_to).remaining))
\* Only the first invalid byte is replaced.
Ascii_to_string_lossy_once(chars) ==
  IF validate_ascii(SubSeq(chars, 1, Ascii_len(chars))).ok
  THEN SubSeq(chars, 1, Ascii_len(chars))
  ELSE LossyStep(<<>>, SubSeq(chars, 1, Ascii_len(chars)),
                 validate_ascii(SubSeq(chars, 1, Ascii_len(chars))).valid_up_to).res
Ascii_to_string_lossy(chars) ==
  IF validate_ascii(SubSeq(chars, 1, Ascii_len(chars))).ok
  THEN SubSeq(chars, 1, Ascii_len(chars))
  ELSE LossyLoop([res |-> <<>>, remaining |-> SubSeq(chars, 1, Ascii_len(chars))],
                 validate_ascii(SubSeq(chars, 1, Ascii_len(chars))))

Utf16_len(chars) ==
  IF position(chars, {0}) = None THEN Len(chars) ELSE position(chars, {0})[1]
\* String::from_utf16_lossy: a high surrogate followed by a low one is one
\* code point; every other surrogate is replaced, one replacement each.
IsSurrogate(u) == 55296 <= u /\ u <= 57343
IsLow(u) == 56320 <= u /\ u <= 57343
RECURSIVE from_utf16_lossy(_, _)
from_utf16_lossy(v, i) ==
  IF i > Len(v) THEN <<>>
  ELSE IF ~IsSurrogate(v[i]) THEN <<v[i]>> \o from_utf16_lossy(v, i + 1)
  ELSE IF IsLow(v[i]) THEN <<REPLACEMENT>> \o from_utf16_lossy(v, i + 1)
  ELSE IF i = Len(v) THEN <<REPLACEMENT>>
  ELSE IF ~IsLow(v[i + 1]) THEN <<REPLACEMENT>> \o from_utf16_lossy(v, i + 1)
  ELSE <<65536 + (v[i] - 55296) * 1024 + (v[i + 1] - 56320)>>
         \o from_utf16_lossy(v, i + 2)
Utf16_to_string_lossy(chars) ==
  from_utf16_lossy(SubSeq(chars, 1, Utf16_len(chars)), 1)

(***************************************************************************)
(* SpecKey1: a key state is initialised at one level, then blocks are      *)
(* encrypted and decrypted with it.                                        *)
(***************************************************************************)
\* No key state is being built.
XIdle ==
  /\ x_pc = "none" /\ x_game = <<0, 0>> /\ x_level = 0 /\ x_steps = 0
  /\ x_call = 0 /\ x_key = <<>> /\ x_kb = <<>> /\ x_lr = <<>>
\* No header has been decoded.
EIdle ==
  /\ e_pc = "none" /\ e_host = "" /\ e_header = <<>> /\ e_field = ""
  /\ e_value = <<0, 0>>
\* No string has been made.
SIdle == s_pc = "none" /\ s_kind = "" /\ s_chars = <<>> /\ s_out = <<>>
\* Nothing has been loaded and no key state built.
LIdle ==
  /\ pc = "start" /\ via = "" /\ input = None /\ bytes = None /\ pos = U(0)
  /\ short_reads = 0 /\ interrupts = 0 /\ rom_data_size = U(0)
  /\ rom = None /\ header = None /\ banner = None /\ params = None
  /\ chip_id = None /\ performed = FALSE /\ panic_at = "" /\ log = {}
  /\ loads = 0 /\ first = None
KIdle ==
  /\ k_pc = "new" /\ k_game = <<0, 0>> /\ k_level = 0
  /\ key_buf = <<>> /\ block = <<>> /\ plain = <<>>

KInit ==
  /\ keys = Key1Table
  /\ roms = ROMS
  /\ LIdle /\ KIdle /\ SIdle /\ EIdle /\ XIdle

KInit1(g) ==
  /\ k_pc = "new"
  /\ key_buf' = keys[1][g] /\ k_game' = g /\ k_level' = 1 /\ k_pc' = "ready"
  /\ UNCHANGED <<keys, block, plain, lvars, svars, evars, xvars>>
KInit2(g) ==
  /\ k_pc = "new"
  /\ key_buf' = keys[2][g] /\ k_game' = g /\ k_level' = 2 /\ k_pc' = "ready"
  /\ UNCHANGED <<keys, block, plain, lvars, svars, evars, xvars>>
KInit3(g) ==
  /\ k_pc = "new"
  /\ key_buf' = keys[3][g] /\ k_game' = g /\ k_level' = 3 /\ k_pc' = "ready"
  /\ UNCHANGED <<keys, block, plain, lvars, svars, evars, xvars>>
KEncryptBlock(b) ==
  /\ k_pc = "ready"
  /\ plain' = b /\ block' = encrypt_block(key_buf, b) /\ k_pc' = "encrypted"
  /\ UNCHANGED <<keys, k_game, k_level, key_buf, lvars, svars, evars, xvars>>
KDecryptBlock ==
  /\ k_pc = "encrypted"
  /\ block' = decrypt_block(key_buf, block) /\ k_pc' = "decrypted"
  /\ UNCHANGED <<keys, k_game, k_level, key_buf, plain, lvars, svars, evars, xvars>>

KNext ==
  \/ \E g \in GameCodes : KInit1(g)
  \/ \E g \in GameCodes : KInit2(g)
  \/ \E g \in GameCodes : KInit3(g)
  \/ \E b \in Blocks : KEncryptBlock(b)
  \/ KDecryptBlock

SpecKey1 == KInit /\ [][KNext]_vars

(***************************************************************************)
(* SpecSchedule: Key1::init<level>(game_code) taken one call at a time:    *)
(* each apply_keycode is its two encrypt calls, expand_key's xor loop and  *)
(* expand_key's 9 + 0x200 chained encrypt calls.                           *)
(***************************************************************************)
\* The game codes whose key states are built step by step: those of the
\* model and one with its top and bottom bits set.
ScheduleCodes == {read_u32(GameCodeBytes[i]) : i \in 1..(NumGameCodes + 1)}

XInit ==
  /\ keys = Key1Table
  /\ roms = ROMS
  /\ LIdle /\ KIdle /\ SIdle /\ EIdle /\ XIdle
\* init<level>: `Key1 { key_buf: KEY_DATA }` and the base key.
XNew(level, g) ==
  /\ x_pc = "none"
  /\ x_pc' = "keycode" /\ x_level' = level /\ x_game' = g
  /\ x_kb' = KEY_DATA /\ x_key' = BaseKey(g)
  /\ x_steps' = 0 /\ x_call' = 0 /\ x_lr' = <<W(0), W(0)>>
  /\ UNCHANGED <<keys, kvars, lvars, svars, evars>>
\* apply_keycode up to its call of expand_key.
XKeycode ==
  /\ x_pc = "keycode"
  /\ x_key' = KeycodeKey(x_kb, x_key) /\ x_pc' = "xor"
  /\ UNCHANGED <<keys, kvars, lvars, svars, evars, x_game, x_level, x_steps,
                 x_call, x_kb, x_lr>>
\* expand_key's first loop, and `let mut lr = (0, 0)`.
XXorP ==
  /\ x_pc = "xor"
  /\ x_kb' = XorP(x_kb, x_key) /\ x_lr' = <<W(0), W(0)>> /\ x_call' = 0
  /\ x_pc' = "expand"
  /\ UNCHANGED <<keys, kvars, lvars, svars, evars, x_game, x_level, x_steps,
                 x_key>>
\* One pass of expand_key's second or third loop.
XExpandCall ==
  /\ x_pc = "expand" /\ x_call < 9 + 512
  /\ x_kb' = ExpandStep([kb |-> x_kb, lr |-> x_lr], x_call).kb
  /\ x_lr' = ExpandStep([kb |-> x_kb, lr |-> x_lr], x_call).lr
  /\ x_call' = x_call + 1
  /\ UNCHANGED <<keys, kvars, lvars, svars, evars, x_pc, x_game, x_level,
                 x_steps, x_key>>
\* expand_key and apply_keycode return to init<level>.
XReturn ==
  /\ x_pc = "expand" /\ x_call = 9 + 512
  /\ x_steps' = x_steps + 1
  /\ x_pc' = IF x_steps + 1 = x_level THEN "done"
             ELSE IF x_level = 3 /\ x_steps + 1 = 2 THEN "shift"
             ELSE "keycode"
  /\ UNCHANGED <<keys, kvars, lvars, svars, evars, x_game, x_level, x_call,
                 x_key, x_kb, x_lr>>
\* init3: key[1] <<= 1; key[2] >>= 1.
XShift ==
  /\ x_pc = "shift"
  /\ x_key' = <<x_key[1], Shl32(x_key[2], 1), Shr32(x_key[3], 1)>>
  /\ x_pc' = "keycode"
  /\ UNCHANGED <<keys, kvars, lvars, svars, evars, x_game, x_level, x_steps,
                 x_call, x_kb, x_lr>>

XNext ==
  \/ \E level \in 1..3, g \in ScheduleCodes : XNew(level, g)
  \/ XKeycode
  \/ XXorP
  \/ XExpandCall
  \/ XReturn
  \/ XShift

SpecSchedule == XInit /\ [][XNext]_vars

(***************************************************************************)
(* Spec: one image is loaded, from a slice (load) or from a file (open),   *)
(* and the buffer of a loaded image may be loaded again.                   *)
(***************************************************************************)
Init ==
  /\ keys = Key1Table
  /\ roms = ROMS
  /\ LIdle /\ KIdle /\ SIdle /\ EIdle /\ XIdle

\* NdsRom::load(bytes), up to its last line: the buffer is allocated and
\* the bytes are copied in.
LoadBytes(b) ==
  LET sz == size_loop(U(NdsHeader_SIZE), b.len)
  IN  /\ bytes' = b
      /\ loads' = loads + 1
      /\ IF sz.hangs THEN pc' = "hang" /\ rom' = rom
         ELSE pc' = "load_data" /\ rom' = ZeroPadded(b, b.len, sz.rom_size)
      /\ rom_data_size' = b.len
      /\ header' = None /\ banner' = None /\ params' = None /\ chip_id' = None
      /\ performed' = FALSE /\ panic_at' = "" /\ log' = {}
      /\ UNCHANGED <<keys, kvars, svars, evars, xvars, roms, pos, short_reads, interrupts>>
Load(d) ==
  /\ pc = "start"
  /\ input' = d /\ first' = first /\ via' = "load"
  /\ LoadBytes(Image(d))
\* NdsRom::load(R.rom) for an image R that was loaded before.
Reload ==
  /\ pc = "done" /\ loads < MaxLoads
  /\ input' = input /\ via' = "load"
  /\ first' = Some([rom |-> rom, performed |-> performed])
  /\ LoadBytes(rom)
Returned(res) ==
  /\ pc' = res.pc /\ rom' = res.rom /\ header' = res.header
  /\ banner' = res.banner /\ params' = res.params /\ chip_id' = res.chip_id
  /\ performed' = res.performed /\ panic_at' = res.panic_at /\ log' = res.log
\* The last line of load and of open: Ok(Self::load_data(rom, len)).  It is
\* the only step there is once the buffer is filled.
LoadData ==
  /\ pc = "load_data"
  /\ Returned(load_data(keys, roms, rom, rom_data_size))
  /\ UNCHANGED <<keys, kvars, svars, evars, xvars, roms, via, input, bytes, pos, short_reads,
                 interrupts, rom_data_size, loads, first>>

\* NdsRom::open(path): the file is opened and sized, the buffer allocated.
Open(d) ==
  /\ pc = "start"
  /\ LET b == Image(d)
         sz == size_loop(U(NdsHeader_SIZE), b.len)
     IN  /\ input' = d /\ bytes' = b /\ loads' = loads + 1 /\ via' = "open"
         /\ IF sz.hangs THEN pc' = "hang" /\ rom' = rom
            ELSE pc' = "open_read" /\ rom' = ZeroPadded(b, U(0), sz.rom_size)
  /\ UNCHANGED <<keys, kvars, svars, evars, xvars, roms, pos, short_reads, interrupts, rom_data_size,
                 header, banner, params, chip_id, performed, panic_at, log, first>>
\* File::open or metadata fails.
OpenError(d) ==
  /\ pc = "start"
  /\ input' = d /\ bytes' = Image(d) /\ loads' = loads + 1 /\ pc' = "io_error"
  /\ via' = "open"
  /\ UNCHANGED <<keys, kvars, svars, evars, xvars, roms, pos, short_reads, interrupts, rom_data_size,
                 rom, header, banner, params, chip_id, performed, panic_at, log,
                 first>>
\* Every read stored at the start of the buffer.
Read_at_start(short, n) ==
  /\ pc = "open_read" /\ ULt(pos, bytes.len)
  /\ IF short
     THEN /\ ULt(n, USub(bytes.len, pos)) /\ short_reads < MaxShortReads
          /\ short_reads' = short_reads + 1
     ELSE /\ n = U(0) /\ short_reads' = short_reads
  /\ LET got == IF short THEN n ELSE USub(bytes.len, pos)
     IN  /\ pos' = UAdd(pos, got)
         /\ rom' = ZeroPadded(bytes, got, rom.len)
  /\ UNCHANGED <<keys, kvars, svars, evars, xvars, roms, pc, via, input, bytes, interrupts, rom_data_size,
                 header, banner, params, chip_id, performed, panic_at, log,
                 loads, first>>
\* file.read returns Ok(n), n > 0: everything that is left, or less.
Read(short, n) ==
  /\ pc = "open_read" /\ ULt(pos, bytes.len)
  /\ IF short
     THEN /\ ULt(n, USub(bytes.len, pos)) /\ short_reads < MaxShortReads
          /\ short_reads' = short_reads + 1
     ELSE /\ n = U(0) /\ short_reads' = short_reads
  /\ LET got == IF short THEN n ELSE USub(bytes.len, pos)
     IN  /\ pos' = UAdd(pos, got)
         /\ rom' = ZeroPadded(bytes, UAdd(pos, got), rom.len)
  /\ UNCHANGED <<keys, kvars, svars, evars, xvars, roms, pc, via, input, bytes, interrupts, rom_data_size,
                 header, banner, params, chip_id, performed, panic_at, log,
                 loads, first>>
\* file.read returns Ok(0), at the end of the file: the loop is left, its
\* position and counters go out of scope, and load_data is called with the
\* length metadata gave.
ReadEof ==
  /\ pc = "open_read" /\ pos = bytes.len
  /\ pc' = "load_data" /\ rom_data_size' = bytes.len
  /\ pos' = U(0) /\ short_reads' = 0 /\ interrupts' = 0
  /\ UNCHANGED <<keys, kvars, svars, evars, xvars, roms, via, input, bytes, rom, header, banner,
                 params, chip_id, performed, panic_at, log, loads, first>>
\* The interrupted read counted as one byte read.
ReadInterrupted_skips ==
  /\ pc = "open_read" /\ interrupts < MaxInterrupts
  /\ interrupts' = interrupts + 1
  /\ pos' = UAdd(pos, U(1))
  /\ UNCHANGED <<keys, kvars, svars, evars, xvars, roms, pc, via, input, bytes, short_reads,
                 rom_data_size, rom, header, banner, params, chip_id, performed,
                 panic_at, log, loads, first>>
\* file.read fails with ErrorKind::Interrupted: the loop goes round again.
ReadInterrupted ==
  /\ pc = "open_read" /\ interrupts < MaxInterrupts
  /\ interrupts' = interrupts + 1
  /\ UNCHANGED <<keys, kvars, svars, evars, xvars, roms, pc, via, input, bytes, pos, short_reads,
                 rom_data_size, rom, header, banner, params, chip_id, performed,
                 panic_at, log, loads, first>>
\* file.read fails with any other error, which open returns.
ReadError ==
  /\ pc = "open_read"
  /\ pc' = "io_error"
  /\ pos' = U(0) /\ short_reads' = 0 /\ interrupts' = 0
  /\ UNCHANGED <<keys, kvars, svars, evars, xvars, roms, via, input, bytes, rom_data_size, rom,
                 header, banner, params, chip_id, performed, panic_at, log,
                 loads, first>>

\* The lengths of the short reads tried (a read of everything left is
\* Read(FALSE, U(0))).
ReadSizes == {U(1)}

Next ==
  \/ \E d \in Inputs : Load(d)
  \/ Reload
  \/ LoadData
  \/ \E d \in Inputs : Open(d)
  \/ \E d \in Inputs : OpenError(d)
  \/ \E n \in ReadSizes : Read(TRUE, n)
  \/ Read(FALSE, U(0))
  \/ ReadEof
  \/ ReadInterrupted
  \/ ReadError

Spec == Init /\ [][Next]_vars

(***************************************************************************)
(* SpecStr: a fixed-capacity string holds any N code units (a header or    *)
(* banner is copied from the image as it is), and one of its operations is *)
(* applied to it.                                                          *)
(***************************************************************************)
StrCap == 4
AsciiUnits == {0, 65, 66, 128, 255}
Utf16Units == {0, 65, 55296, 56320}
AsciiInputs == [1..StrCap -> AsciiUnits]
Utf16Inputs == [1..StrCap -> Utf16Units]

SInit ==
  /\ keys = Key1Table
  /\ roms = ROMS
  /\ LIdle /\ KIdle /\ SIdle /\ EIdle /\ XIdle
SNew(kind, chars) ==
  /\ s_pc' = "new" /\ s_kind' = kind /\ s_chars' = Tup(chars) /\ s_out' = <<>>
  /\ UNCHANGED <<keys, kvars, lvars, evars, xvars>>
\* A header or banner field read from an image.
SNewAscii(chars) ==
  /\ s_pc = "none"
  /\ SNew("ascii", chars)
SNewUtf16(chars) ==
  /\ s_pc = "none"
  /\ SNew("utf16", chars)
SApply(op, result) ==
  /\ s_pc' = op /\ s_out' = result
  /\ UNCHANGED <<keys, kvars, lvars, evars, xvars, s_kind, s_chars>>
SAsciiLen ==
  /\ s_pc = "new" /\ s_kind = "ascii"
  /\ SApply("len", Ascii_len(s_chars))
SAsciiToStr ==
  /\ s_pc = "new" /\ s_kind = "ascii"
  /\ SApply("to_str", Ascii_to_str(s_chars))
SAsciiToStringLossy ==
  /\ s_pc = "new" /\ s_kind = "ascii"
  /\ SApply("to_string_lossy", Ascii_to_string_lossy(s_chars))
SUtf16Len ==
  /\ s_pc = "new" /\ s_kind = "utf16"
  /\ SApply("len", Utf16_len(s_chars))
SUtf16ToStringLossy ==
  /\ s_pc = "new" /\ s_kind = "utf16"
  /\ SApply("to_string_lossy", Utf16_to_string_lossy(s_chars))

SNext ==
  \/ \E c \in AsciiInputs : SNewAscii(c)
  \/ \E c \in Utf16Inputs : SNewUtf16(c)
  \/ SAsciiLen
  \/ SAsciiToStr
  \/ SAsciiToStringLossy
  \/ SUtf16Len
  \/ SUtf16ToStringLossy

SpecStr == SInit /\ [][SNext]_vars

(***************************************************************************)
(* SpecHost: NdsHeader::read on a host of either byte order.  The header   *)
(* is the image's first 512 bytes copied as they are, and a u32 field is   *)
(* the host's reading of its four bytes.                                   *)
(***************************************************************************)
Hosts == {"little", "big"}
Reverse4(b) == <<b[4], b[3], b[2], b[1]>>
\* A u32 in memory, read by the host.
native_u32(host, b) == IF host = "little" THEN read_u32(b) ELSE read_u32(Reverse4(b))
FieldOffsets ==
  [arm9_rom_offset |-> OFF_arm9_rom_offset, banner_offset |-> OFF_banner_offset,
   rom_size |-> OFF_rom_size]
\* The buffer load allocates for the image d.
BufferOf(b) == ZeroPadded(b, b.len, size_loop(U(NdsHeader_SIZE), b.len).rom_size)

\* NdsHeader::device_capacity_bytes.
device_capacity(h) == h[OFF_device_capacity + 1]
\* (128 * 1024) << self.device_capacity on a usize.  A shift by 64 or more
\* aborts where overflow checks are compiled in (a debug build) and is
\* taken modulo 64 where they are not (a release build).
Builds == {"debug", "release"}
device_capacity_bytes(h, build) ==
  IF device_capacity(h) >= 64 /\ build = "debug" THEN Panics
  ELSE UShl(U(131072), device_capacity(h) % 64)
\* Every value of the device_capacity byte, in an otherwise plain image.
DeviceCapacities == 0..255
WithCapacity(v) ==
  Splice(Image(Desc(U(512), 512, 1, 0, W(32768), W(0), "none")),
         OFF_device_capacity, <<v>>)

HInit ==
  /\ keys = Key1Table
  /\ roms = ROMS
  /\ LIdle /\ KIdle /\ SIdle /\ EIdle /\ XIdle
\* NdsHeader::read(&rom): there is no test of the host's byte order.
HostRead(host, b) ==
  /\ e_pc = "none"
  /\ e_pc' = "read" /\ e_host' = host
  /\ e_header' = NdsHeader_read(BufferOf(b))
  /\ UNCHANGED <<keys, kvars, lvars, svars, xvars, e_field, e_value>>
\* header.<field>, for a u32 field.
HostField(f) ==
  /\ e_pc = "read"
  /\ e_pc' = "field" /\ e_field' = f
  /\ e_value' = native_u32(e_host, SubSeq(e_header, FieldOffsets[f] + 1,
                                          FieldOffsets[f] + 4))
  /\ UNCHANGED <<keys, kvars, lvars, svars, xvars, e_host, e_header>>

\* header.device_capacity_bytes(), in either build.
HostCapacity(build) ==
  /\ e_pc = "read"
  /\ e_pc' = "capacity" /\ e_field' = "device_capacity"
  /\ e_value' = device_capacity_bytes(e_header, build)
  /\ UNCHANGED <<keys, kvars, lvars, svars, xvars, e_host, e_header>>

HNext ==
  \/ \E host \in Hosts, d \in Inputs : HostRead(host, Image(d))
  \/ \E host \in Hosts, v \in DeviceCapacities : HostRead(host, WithCapacity(v))
  \/ \E f \in DOMAIN FieldOffsets : HostField(f)
  \/ \E build \in Builds : HostCapacity(build)

SpecHost == HInit /\ [][HNext]_vars

(***************************************************************************)
(* Claims                                                                  *)
(***************************************************************************)

\* C1: at every level and for every game code, decrypt_block undoes
\* encrypt_block on every block, and neither changes the key state, which
\* stays the one init<level>(game_code) built.
C1_RoundTrip ==
  /\ k_pc \in {"encrypted", "decrypted"} => key_buf = Key1Init(k_level, k_game)
  /\ k_pc = "encrypted" => Len(block) = 8
  /\ k_pc = "decrypted" => block = plain
C1_Witness ==
  /\ k_pc = "decrypted" /\ k_level = 3 /\ plain = EncryObj /\ block = EncryObj

\* C2: whichever entry point is used, the buffer is the smallest power of
\* two that is at least max(512, n) for an input of n bytes; the doubling
\* loop ends, and NdsHeader::read never gets fewer than 512 bytes.
C2_BufferSize ==
  /\ pc # "hang"
  /\ panic_at # "NdsHeader::read"
  /\ pc \in {"open_read", "load_data", "done", "panic"} =>
       \E k \in 9..63 :
         /\ rom.len = UPow2(k)
         /\ ULe(bytes.len, UPow2(k))
         /\ k = 9 \/ ULt(UPow2(k - 1), bytes.len)
C2_Witness ==
  /\ pc = "done" /\ via = "open"
  /\ bytes.len = UAdd(UPow2(20), U(1)) /\ rom.len = UPow2(21)

\* The input of the load in progress, padded with zeros to the buffer's
\* length: what the buffer holds before init_secure_area.
Padded == [bytes EXCEPT !.len = rom.len]
\* The start of the secure area, from the header's bytes.
Arm9 == header[OFF_arm9_rom_offset + 1] + 256 * header[OFF_arm9_rom_offset + 2]
        + 65536 * header[OFF_arm9_rom_offset + 3]
        + 16777216 * header[OFF_arm9_rom_offset + 4]
\* load_data has built the NdsRom (lines 134-140) and called init_secure_area
\* on it; the call may have aborted.
Assembled ==
  \/ pc = "done"
  \/ pc = "panic" /\ panic_at \in {"secure_area_mut", "secure_area[0..4]",
                                  "secure_area[0x10..0x14]", "encrypt_secure_area"}
\* The trigger as the claim states it, on the bytes before the load touched
\* them: the secure area is the part of the buffer at [Arm9, 0x8000), and a
\* byte it does not hold equals nothing.
Trigger ==
  /\ 16384 <= Arm9 /\ Arm9 < 32768
  /\ ULe(U(SECURE_AREA_END), rom.len)
  /\ Arm9 + 4 <= SECURE_AREA_END
  /\ Slice(Padded, Arm9, Arm9 + 4) = <<255, 222, 255, 231>>
  /\ Arm9 + 20 <= SECURE_AREA_END
  /\ Slice(Padded, Arm9 + 16, Arm9 + 20) # <<255, 222, 255, 231>>

\* C3: a load calls the repair exactly when the image has a secure area whose
\* bytes [0,4) are FF DE FF E7 and whose bytes [0x10,0x14) are not; without a
\* secure area it is never called.
C3_RepairTrigger ==
  /\ performed => Assembled
  /\ Assembled => (performed <=> Trigger)
  /\ (Assembled /\ ~has_secure_area(header)) => ~performed
C3_Witness ==
  /\ pc = "done" /\ performed /\ input.sa = "first" /\ input.arm9 = W(16384)

Before == Slice(Padded, Arm9, Arm9 + SECURE_AREA_ENCRYPTED)
After == Slice(rom, Arm9, Arm9 + SECURE_AREA_ENCRYPTED)
BlockOf(t, k) == SubSeq(t, 8 * k + 1, 8 * k + 8)
Repaired == pc = "done" /\ performed

\* C5: after a repair, block 0 of the secure area is E2(E3("encryObj")) and
\* block k, 1 <= k < 256, is E3 of the original block k alone, E3 and E2
\* being encrypt_block under init3 and init2 of the header's game code.
C5_RepairResult ==
  Repaired =>
    /\ BlockOf(After, 0) =
         encrypt_block(Key1Init(2, game_code(header)),
           encrypt_block(Key1Init(3, game_code(header)), EncryObj))
    /\ \A k \in 1..255 :
         BlockOf(After, k) =
           encrypt_block(Key1Init(3, game_code(header)), BlockOf(Before, k))
C5_Witness ==
  /\ Repaired /\ via = "load" /\ input.arm9 = W(30720)
  /\ BlockOf(Before, 1) = BlockOf(Before, 252)
  /\ BlockOf(After, 1) = BlockOf(After, 252)
  /\ BlockOf(After, 1) # BlockOf(After, 2)

\* C6: decrypting block 0 of a repaired secure area under init2 and then
\* every block under init3 gives "encryObj" followed by the original bytes
\* [8, 0x800).
C6_RepairDecrypts ==
  Repaired =>
    /\ decrypt_block(Key1Init(3, game_code(header)),
         decrypt_block(Key1Init(2, game_code(header)), BlockOf(After, 0)))
       = EncryObj
    /\ \A k \in 1..255 :
         decrypt_block(Key1Init(3, game_code(header)), BlockOf(After, k))
         = BlockOf(Before, k)
C6_Witness ==
  /\ Repaired /\ via = "open" /\ input.code = 2 /\ input.arm9 = W(16384)
  /\ BlockOf(After, 0) # EncryObj

\* What a byte string holds from index e on: its filling, or zeros.
Beyond(s, e) ==
  IF ULt(U(e), s.n) /\ s.fill # 0 THEN <<s.fill, s.n>> ELSE <<0, U(0)>>
Written == Max(Len(rom.data), Len(Padded.data))

\* C7: after a load the buffer is the zero-padded input everywhere outside
\* the first 0x800 bytes of the secure area, and everywhere at all when no
\* repair was made.
C7_Frame ==
  pc = "done" =>
    IF performed
    THEN /\ rom.len = Padded.len
         /\ Slice(rom, 0, Arm9) = Slice(Padded, 0, Arm9)
         /\ Slice(rom, Arm9 + SECURE_AREA_ENCRYPTED, Written)
            = Slice(Padded, Arm9 + SECURE_AREA_ENCRYPTED, Written)
         /\ Beyond(rom, Written) = Beyond(Padded, Written)
    ELSE rom = Padded
C7_Witness ==
  /\ Repaired /\ input.len = U(16400)
  /\ After # Before /\ rom.len = U(32768) /\ At(rom, 20000) = 0

\* C8: has_secure_area() holds exactly when 0x4000 <= arm9_rom_offset <
\* 0x8000: it holds at 0x4000 and 0x7FFF and fails at 0x3FFF and 0x8000.
C8_HasSecureArea ==
  header # None =>
    /\ has_secure_area(header) <=> (16384 <= Arm9 /\ Arm9 < 32768)
    /\ Arm9 \in {16384, 32767} => has_secure_area(header)
    /\ Arm9 \in {16383, 32768} => ~has_secure_area(header)
C8_Witness ==
  /\ header # None /\ input.arm9 = W(32767) /\ Arm9 = 32767
  /\ has_secure_area(header)

\* C9: on an image load has built, secure_area() and secure_area_mut() give
\* None without a secure area and otherwise the buffer's bytes at
\* [arm9_rom_offset, 0x8000), never aborting, whatever the buffer's length.
C9_Accessors ==
  Assembled =>
    IF 16384 <= Arm9 /\ Arm9 < 32768
    THEN /\ secure_area(rom, header) # Panics
         /\ secure_area_mut(rom, header) # Panics
         /\ secure_area(rom, header) = Some(Slice(rom, Arm9, 32768))
         /\ secure_area_mut(rom, header)[1].bytes = Slice(rom, Arm9, 32768)
    ELSE secure_area(rom, header) = None /\ secure_area_mut(rom, header) = None

\* rom_size >> 16, for buffers below 2^47 bytes.
RomSize64K == rom.len[2] * HALF + rom.len[3]
\* The size field as the claim gives it.
SizeField ==
  IF ULe(MiBsz(256), rom.len) THEN 256 - RomSize64K \div 4096
  ELSE IF ULe(MiBsz(1), rom.len) /\ ULe(rom.len, MiBsz(128))
  THEN RomSize64K \div 16 - 1
  ELSE 0

\* C10: bits [15:8] of the chip ID are (rom_size >> 20) - 1 for a buffer of
\* 1 MiB to 128 MiB, 0x100 - (rom_size >> 28) for one of 256 MiB or more, 0
\* otherwise, and the size sets no bit outside [15:8]: bits 16 to 23, which
\* nothing else sets, stay clear.
C10_SizeField ==
  Assembled =>
    /\ chip_id[2] \div 256 = SizeField
    /\ chip_id[1] % 256 = 0

\* Bit b (16..31) of a u32.
HighBit(w, b) == (w[1] \div Pow2(b - 16)) % 2
IsNand == memory_kind(params.sram_kind) = "Nand"

Homebrew ==
  Arm9 < 16384
    \/ SubSeq(header, OFF_game_code + 1, OFF_game_code + 4) = <<35, 35, 35, 35>>
HasEntry == game_code(header) \in DOMAIN roms

\* C12: params is the table's entry for the header's game code when there is
\* one, homebrew or not; without an entry its sram_kind is None for homebrew
\* and Eeprom64KB otherwise, and its rom_size is the buffer's length.
C12_Params ==
  Assembled =>
    IF HasEntry THEN params = roms[game_code(header)]
    ELSE /\ params.sram_kind = (IF Homebrew THEN "None" ELSE "Eeprom64KB")
         /\ as_usize(params.rom_size) = rom.len

\* C13: is_homebrew() holds exactly when arm9_rom_offset < 0x4000 or the game
\* code is "####"; so an image with a secure area is homebrew only by its
\* game code.
C13_IsHomebrew ==
  header # None =>
    /\ is_homebrew(header) <=> Homebrew
    /\ (is_homebrew(header) /\ has_secure_area(header)) =>
         SubSeq(header, OFF_game_code + 1, OFF_game_code + 4) = <<35, 35, 35, 35>>
C13_Witness ==
  /\ pc = "done" /\ Arm9 = 16384 /\ has_secure_area(header)
  /\ is_homebrew(header) /\ params.sram_kind = "None"

\* The units of the string in hand before its first zero unit.
FirstNul ==
  IF \E i \in 1..Len(s_chars) : s_chars[i] = 0
  THEN (CHOOSE i \in 1..Len(s_chars) :
          s_chars[i] = 0 /\ \A j \in 1..(i - 1) : s_chars[j] # 0) - 1
  ELSE Len(s_chars)
Content == SubSeq(s_chars, 1, FirstNul)
\* A surrogate that is half of a pair: a high one before a low one.
IsHigh(u) == 55296 <= u /\ u <= 56319
Paired(i) ==
  \/ IsHigh(Content[i]) /\ i < FirstNul /\ IsLow(Content[i + 1])
  \/ IsLow(Content[i]) /\ i > 1 /\ IsHigh(Content[i - 1])
\* The invalid units: bytes above 0x7F, unpaired surrogates.
InvalidAt(i) ==
  IF s_kind = "ascii" THEN Content[i] > 127
  ELSE IsSurrogate(Content[i]) /\ ~Paired(i)
InvalidUnits == {i \in 1..FirstNul : InvalidAt(i)}
\* The maximal runs of invalid units, each by its first index.
InvalidRuns == {i \in InvalidUnits : i - 1 \notin InvalidUnits}
Replacements == {i \in 1..Len(s_out) : s_out[i] = REPLACEMENT}
Lossy == s_pc = "to_string_lossy"

\* C14 as stated: to_string_lossy gives one U+FFFD for each maximal run of
\* invalid units before the first NUL, a run of several units giving one.
C14_OnePerRun ==
  Lossy => Cardinality(Replacements) = Cardinality(InvalidRuns)
\* C14: to_string_lossy always returns, and gives one U+FFFD for each invalid
\* unit before the first NUL (each byte above 0x7F, each unpaired surrogate):
\* a run of k adjacent invalid units gives k of them.
C14_OnePerUnit ==
  Lossy => Cardinality(Replacements) = Cardinality(InvalidUnits)
C14_Witness ==
  /\ Lossy /\ s_kind = "ascii" /\ s_chars = <<65, 128, 255, 0>>
  /\ s_out = <<65, REPLACEMENT, REPLACEMENT>>

NotReplacement(c) == c # REPLACEMENT
IsAscii(c) == c <= 127

\* C15: for an Ascii string, to_string_lossy without its U+FFFD is the valid
\* bytes before the first NUL, in order: those before, between and after
\* the invalid bytes.
C15_ValidKept ==
  (Lossy /\ s_kind = "ascii") =>
    SelectSeq(s_out, NotReplacement) = SelectSeq(Content, IsAscii)

\* The string in hand with every byte after its first NUL set to zero.
Terminated == Tup([i \in 1..Len(s_chars) |-> IF i <= FirstNul THEN s_chars[i] ELSE 0])

\* C16: for an Ascii string, len() is the index of the first zero byte, or N;
\* to_str() fails exactly when a byte before it is above 0x7F, reporting the
\* index of the first such byte, and otherwise gives the bytes before it;
\* the bytes after the first NUL change nothing.
C16_Strict ==
  s_kind = "ascii" =>
    /\ s_pc = "len" => s_out = FirstNul /\ s_out = Ascii_len(Terminated)
    /\ s_pc = "to_str" =>
         /\ s_out.ok <=> InvalidUnits = {}
         /\ s_out.ok => s_out.str = Content
         /\ ~s_out.ok =>
              /\ s_out.valid_up_to + 1 \in InvalidUnits
              /\ \A i \in InvalidUnits : s_out.valid_up_to + 1 <= i
         /\ s_out = Ascii_to_str(Terminated)
C16_Witness ==
  /\ s_pc = "to_str" /\ s_chars = <<65, 128, 0, 255>>
  /\ ~s_out.ok /\ s_out.valid_up_to = 1

\* The buffer b with the three stored CRC-16 fields set to c.
WithCrcs(b, c) ==
  Splice(Splice(Splice(b, OFF_secure_area_crc16, c), OFF_nintendo_logo_crc16, c),
         OFF_header_crc16, c)
CrcVariants == {<<0, 0>>, <<255, 255>>, <<52, 18>>}
\* What load_data returns for the input of the load in hand with its stored
\* CRC fields set to c.
LoadedWithCrcs(c) == load_data(keys, roms, WithCrcs(Padded, c), rom_data_size)
SameOutcome(res) ==
  /\ res.pc = pc /\ res.panic_at = panic_at
  /\ res.params = params /\ res.chip_id = chip_id /\ res.performed = performed
  /\ res.banner = banner /\ res.log = log
  /\ res.pc = "done" => res.rom = WithCrcs(rom, SubSeq(res.header, OFF_header_crc16 + 1, OFF_header_crc16 + 2))

\* C17: the load reads none of the stored CRC-16 fields (0x06C, 0x15C,
\* 0x15E): whatever they hold, it ends the same way, with the same params,
\* chip ID, banner and repair decision, and the same buffer but for them.
C17_CrcIgnored ==
  pc \in {"done", "panic"} => \A c \in CrcVariants : SameOutcome(LoadedWithCrcs(c))
C17_Witness ==
  /\ pc = "done" /\ performed /\ via = "load" /\ input.arm9 = W(28672)
  /\ WithCrcs(Padded, <<255, 255>>) # Padded
  /\ LoadedWithCrcs(<<255, 255>>).performed

\* In the read loop the buffer holds the first pos bytes of the file and
\* zeros after them; once the loop is left it holds the whole file.
ReadSoFar ==
  /\ pc = "open_read" => ULe(pos, bytes.len) /\ rom = ZeroPadded(bytes, pos, rom.len)
  /\ (pc = "load_data" /\ via = "open") => rom = Padded /\ rom_data_size = bytes.len
\* An error of File::open, metadata or read ends open with no image.
NoImage ==
  pc = "io_error" =>
    /\ via = "open" /\ header = None /\ params = None /\ chip_id = None
    /\ banner = None /\ ~performed
\* How a step leaves the read loop, and what an interrupted read changes.
LoopStep ==
  /\ (pc = "open_read" /\ pc' # "open_read") =>
       \/ pc' = "load_data" /\ pos = bytes.len
       \/ pc' = "io_error"
  /\ (pc = "open_read" /\ interrupts' = interrupts + 1) =>
       pc' = "open_read" /\ pos' = pos /\ rom' = rom
  /\ pc = "io_error" => pc' = "io_error"

\* C18: in open, an interrupted read is retried at the same buffer position
\* and no byte is lost, doubled or skipped; the loop is left only when read
\* returns 0, at the end of the file or with the buffer full; any other
\* error of opening, stat-ing or reading is returned and no image is made.
C18_ReadLoop == [](ReadSoFar /\ NoImage) /\ [][LoopStep]_vars
C18_Witness ==
  /\ pc = "open_read" /\ interrupts = 1 /\ short_reads = 1
  /\ pos = bytes.len /\ pos = U(32768) /\ rom = Padded

\* The field read last as the image stores it: little-endian.
Stored == read_u32(SubSeq(e_header, FieldOffsets[e_field] + 1, FieldOffsets[e_field] + 4))

\* C19: on a big-endian host NdsHeader::read does not return a header, and
\* no u32 field is ever read with the wrong byte order.
C19_BigEndianRefused ==
  /\ e_host = "big" => e_pc \notin {"read", "field"}
  /\ e_pc = "field" => e_value = Stored

\* The 9152 bytes of the byte string b at the header's banner_offset.
BannerIn(b) ==
  Slice(b, ToNat(banner_offset(header)), ToNat(banner_offset(header)) + NdsBanner_SIZE)

\* C20 as stated: a loaded image has no banner when banner_offset is 0 and
\* otherwise has the 9152 bytes of its buffer at banner_offset.
C20_BannerOfBuffer ==
  pc = "done" =>
    IF banner_offset(header) = W(0) THEN banner = None
    ELSE banner = Some(BannerIn(rom))
\* C20: a loaded image has no banner when banner_offset is 0 and otherwise
\* has the 9152 bytes at banner_offset of the zero-padded input, which is
\* the buffer as it is before the repair of the secure area.
C20_BannerOfInput ==
  pc = "done" =>
    IF banner_offset(header) = W(0) THEN banner = None
    ELSE banner = Some(BannerIn(Padded))
C20_Witness ==
  /\ pc = "done" /\ performed /\ banner # None
  /\ banner_offset(header) = W(16384)
  /\ banner[1] = BannerIn(Padded) /\ banner[1] # BannerIn(rom)

\* C21: load(bytes) returns an image for every byte sequence: it does not
\* abort and does not fail to return.
C21_LoadTotal == via = "load" => pc \notin {"panic", "hang"}

\* C22: after load returns, the header copy is the header decoded from the
\* final buffer and the banner copy, when there is one, is the banner decoded
\* from the final buffer at banner_offset.
C22_CopiesAgree ==
  pc = "done" =>
    /\ header = NdsHeader_read(rom)
    /\ banner # None =>
         banner = Some(NdsBanner_read(rom, as_usize(banner_offset(header))))

\* A load_data that returns: what it returns, from the buffer it was given.
ReturnStep ==
  (pc = "load_data" /\ pc' = "done") =>
    /\ header' = NdsHeader_read(rom)
    /\ banner' = IF banner_offset(header') = W(0) THEN None
                 ELSE Some(NdsBanner_read(rom, as_usize(banner_offset(header'))))
    /\ params' = resolve_params(roms, header', rom.len)
    /\ chip_id' = generate_chip_id(header', params', rom.len)
    /\ performed' <=> Trigger'
    /\ rom' = IF performed'
              THEN Splice(rom, Arm9',
                          encrypt_secure_area(keys, Slice(rom, Arm9', SECURE_AREA_END),
                                              game_code(header'))[1])
              ELSE rom
\* A returned image stays as it is until its buffer is loaded again.
KeptStep ==
  (pc = "done" /\ loads' = loads) =>
    UNCHANGED <<rom, header, banner, params, chip_id, performed>>

InitOf(level, g) ==
  IF g \in GameCodes THEN keys[level][g]
  ELSE IF level = 1 THEN init1(g) ELSE IF level = 2 THEN init2(g) ELSE init3(g)
\* w >> 1 and w << 1 on 32 bits, by arithmetic on the two halves.
Halved(w) == <<w[1] \div 2, (w[1] % 2) * 32768 + w[2] \div 2>>
Doubled(w) == <<(2 * w[1] + w[2] \div 32768) % 65536, (2 * w[2]) % 65536>>
\* Where init<level> stands between two calls of apply_keycode.
BetweenCalls == x_pc \in {"keycode", "shift", "done"}
ScheduleLevels ==
  /\ (x_pc = "keycode" /\ x_steps = 0) =>
       x_kb = KEY_DATA /\ x_key = <<x_game, Halved(x_game), Doubled(x_game)>>
  /\ x_pc = "done" => x_steps = x_level /\ x_kb = InitOf(x_level, x_game)
  /\ (BetweenCalls /\ x_steps = 1) => x_kb = InitOf(1, x_game)
  /\ (BetweenCalls /\ x_steps = 2) => x_kb = InitOf(2, x_game)
  /\ x_pc = "shift" <=> (x_level = 3 /\ x_steps = 2 /\ x_call # 0 /\ x_pc # "keycode"
                          /\ x_pc # "xor" /\ x_pc # "expand")
ShiftStep ==
  x_pc = "shift" =>
    x_pc' = "keycode" /\ x_key' = <<x_key[1], Doubled(x_key[2]), Halved(x_key[3])>>

\* C24: every init level starts from KEY_DATA and the base key
\* [g, g >> 1, g << 1]; level 1 is one keycode step, level 2 two, level 3
\* two, the shifts of key[1] and key[2], and a third; after its first step
\* a level holds init1(g) and after its second init2(g).
C24_InitLevels == []ScheduleLevels /\ [][ShiftStep]_vars
C24_Witness ==
  /\ x_pc = "keycode" /\ x_level = 3 /\ x_steps = 1
  /\ x_game[1] >= 32768 /\ x_game[2] % 2 = 1
  /\ x_kb = init1(x_game) /\ x_kb # KEY_DATA

\* One round as the claim words it, on the round keys P[pa] and P[pb]:
\* r ^= P[pa]; l ^= lookup(r); l ^= P[pb]; r ^= lookup(l).
StatedRound(kb, lr, pa, pb) ==
  LET r1 == Xor32(lr[2], kb[pa + 1])
      l1 == Xor32(Xor32(lr[1], lookup(kb, r1)), kb[pb + 1])
  IN  <<l1, Xor32(r1, lookup(kb, l1))>>
\* r ^= P[pa]; l ^= P[pb]; return (r, l).
StatedFinish(kb, lr, pa, pb) == <<Xor32(lr[2], kb[pa + 1]), Xor32(lr[1], kb[pb + 1])>>
\* Rounds i, i + 1, ..., 7 on P[2i], P[2i+1].
RECURSIVE RoundsUp(_, _, _)
RoundsUp(kb, lr, i) ==
  IF Known(lr) /\ i = 8 THEN lr ELSE RoundsUp(kb, StatedRound(kb, lr, 2 * i, 2 * i + 1), i + 1)
\* Rounds i, i - 1, ..., 1 on P[2i+1], P[2i].
RECURSIVE RoundsDown(_, _, _)
RoundsDown(kb, lr, i) ==
  IF Known(lr) /\ i = 0 THEN lr ELSE RoundsDown(kb, StatedRound(kb, lr, 2 * i + 1, 2 * i), i - 1)
StatedEncrypt(kb, b) ==
  write_block(StatedFinish(kb, RoundsUp(kb, <<read_u32(SubSeq(b, 1, 4)),
                                              read_u32(SubSeq(b, 5, 8))>>, 0), 16, 17))
StatedDecrypt(kb, b, from) ==
  write_block(StatedFinish(kb, RoundsDown(kb, <<read_u32(SubSeq(b, 1, 4)),
                                                read_u32(SubSeq(b, 5, 8))>>, from), 1, 0))

\* C25 as stated: decrypt runs its rounds for i from 7 down to 1.
C25_RoundsFromSeven ==
  k_pc = "decrypted" => block = StatedDecrypt(key_buf, StatedEncrypt(key_buf, plain), 7)
\* C25: encrypt runs rounds i = 0..7 on P[2i], P[2i+1] and finishes with
\* P[0x10], P[0x11]; decrypt runs rounds i from 8 down to 1 on P[2i+1],
\* P[2i], finishes with P[1], P[0], and undoes encrypt.
C25_RoundsFromEight ==
  /\ k_pc = "encrypted" => block = StatedEncrypt(key_buf, plain)
  /\ k_pc = "decrypted" =>
       /\ block = StatedDecrypt(key_buf, StatedEncrypt(key_buf, plain), 8)
       /\ block = plain
C25_Witness ==
  /\ k_pc = "decrypted" /\ block = plain
  /\ block # StatedDecrypt(key_buf, StatedEncrypt(key_buf, plain), 7)

\* The four bytes of a word in the opposite order.
ByteSwapped(w) ==
  <<(w[2] % 256) * 256 + w[2] \div 256, (w[1] % 256) * 256 + w[1] \div 256>>
\* State word i (from 0) is kb[i + 1].
XorStep ==
  x_pc = "xor" =>
    /\ x_lr' = <<W(0), W(0)>> /\ x_call' = 0 /\ Len(x_kb') = KEY_DATA_LEN
    /\ \A i \in 0..(KEY_DATA_LEN - 1) :
         x_kb'[i + 1] = IF i < 18 THEN Xor32(x_kb[i + 1], ByteSwapped(x_key[(i % 2) + 1]))
                        ELSE x_kb[i + 1]
CallStep ==
  (x_pc = "expand" /\ x_pc' = "expand") =>
    /\ x_call' = x_call + 1 /\ Len(x_kb') = KEY_DATA_LEN
    /\ 2 * x_call + 1 < KEY_DATA_LEN
    /\ x_lr' = encrypt(x_kb, x_lr[1], x_lr[2])
    /\ \A i \in 0..(KEY_DATA_LEN - 1) :
         x_kb'[i + 1] = IF i = 2 * x_call THEN x_lr'[2]
                        ELSE IF i = 2 * x_call + 1 THEN x_lr'[1]
                        ELSE x_kb[i + 1]
EndStep ==
  (x_pc = "expand" /\ x_pc' # "expand") =>
    x_call = 9 + 512 /\ 2 * x_call = KEY_DATA_LEN /\ x_kb' = x_kb

\* C26: expand_key xors P[i] with byte_swap(key[i mod 2]) for i < 0x12, then
\* makes exactly 9 + 0x200 chained encrypt calls from (0, 0); call number c
\* runs on the state as the calls before it left it and stores its output
\* pair swapped into words 2c and 2c + 1, so that the 0x412 words are
\* written once each, in ascending order, and no other index is touched.
C26_ExpandKey == [][XorStep /\ CallStep /\ EndStep]_vars
C26_Witness ==
  /\ x_pc = "expand" /\ x_call = 9 + 512 /\ x_steps = 0
  /\ x_kb[1] # KEY_DATA[1] /\ x_kb[KEY_DATA_LEN] # KEY_DATA[KEY_DATA_LEN]

\* What load(b) hands to load_data, and what it returns.
LoadOf(b) == load_data(keys, roms, BufferOf(b), b.len)
AsLoaded(res) ==
  /\ res.pc = pc /\ res.panic_at = panic_at
  /\ res.rom = rom /\ res.header = header /\ res.banner = banner
  /\ res.params = params /\ res.chip_id = chip_id
  /\ res.performed = performed /\ res.log = log

\* C27: open of a file gives what load of the file's bytes gives: the same
\* call of load_data, and so the same buffer, header, banner, params and
\* chip ID, however the reads were split and interrupted.
C27_OpenAsLoad ==
  via = "open" =>
    /\ pc = "load_data" => rom = BufferOf(bytes) /\ rom_data_size = bytes.len
    /\ pc \in {"done", "panic"} => AsLoaded(LoadOf(bytes))
C27_Witness ==
  /\ via = "open" /\ pc = "done" /\ performed /\ rom # BufferOf(bytes)
  /\ rom = LoadOf(bytes).rom

\* C28: when the memory kind is not NAND, bit 31 of the chip ID is set
\* exactly when its size field, bits [15:8], is at least 0x7F.
C28_SizePartsAgree ==
  (Assembled /\ ~IsNand) =>
    (HighBit(chip_id, 31) = 1 <=> chip_id[2] \div 256 >= 127)

\* Bit 1 of the header's unit code byte.
DsiUnit == (header[OFF_unit_code + 1] \div 2) % 2 = 1

C30_CapacityBytes ==
  e_pc = "capacity" =>
    /\ 17 + device_capacity(e_header) < 64
    /\ e_value = UPow2(17 + device_capacity(e_header))
====
